---- MODULE Spec2Model ----
(***************************************************************************)
(* Ledger and credit accounting of the text-humanization backend.          *)
(*                                                                         *)
(* The state is the relational store (one variable per table of            *)
(* models.py, a table being the sequence of its rows in insertion order),  *)
(* the payment provider's intents, the wall clock, the requests in flight  *)
(* and the last response returned.  A request is a process: every          *)
(* store query and every committed insert of a service method is one       *)
(* atomic step, so that requests interleave exactly where the code lets    *)
(* them.  Every form method commits its own insert (a session.commit      *)
(* inside each add method), which is modelled as written.                  *)
(*                                                                         *)
(* Credits are DECIMAL(10,2); they are kept as integers in hundredths of a *)
(* credit.  A text is modelled by its number of words.                     *)
(***************************************************************************)
EXTENDS Integers, Sequences, FiniteSets, TLC

\* ------------------------------------------------------------------ bounds
\* Number of requests accepted in one behaviour.
MaxCalls == 2
\* Number of requests that may be in flight at the same time.
MaxProcs == 2
\* Number of store failures (a query or an insert raising) in one behaviour.
MaxFaults == 1

\* ------------------------------------------------------------------ values
\* Python's None / SQL NULL, and a present value, comparable with each other.
NULL == << >>

Some(v) == << v >>

\* uuid1(): time based, unique per call; t is the clock tick of the call.
user_id(t) == << "u", t >>

\* Hundredths of a credit in n whole credits.
Credits(n) == n * 100

VARIABLES
    User,               \* table user: set of rows
    HumanizedHistory,   \* table humanized_history
    CheckHistory,       \* table check_history
    SpendHistory,       \* table spend_history
    RechargeHistory,    \* table recharge_history
    ApiHistory,         \* table api_history
    PaymentIntent,      \* table payment_intent
    PaymentResult,      \* table payment_result
    ReferCode,          \* table refer_code
    ReferHistory,       \* table refer_history
    stripe,             \* the payment providers' intents, by result id
    clock,              \* ticks of get_current_time()
    req,                \* the request in flight of each worker
    response,           \* the response just returned, with its request
    faults              \* store failures so far

tables == << User, HumanizedHistory, CheckHistory, SpendHistory, RechargeHistory,
             ApiHistory, PaymentIntent, PaymentResult, ReferCode, ReferHistory >>

vars == << User, HumanizedHistory, CheckHistory, SpendHistory, RechargeHistory,
           ApiHistory, PaymentIntent, PaymentResult, ReferCode, ReferHistory,
           stripe, clock, req, response, faults >>

Procs == 1 .. MaxProcs

Idle == [op |-> "idle"]

\* ------------------------------------------------------------------ toolkit
\* The humanize price at one credit per word in every mode.
humanized_spend_flat(word_count, mode) == word_count * 100

\* InputProcessing.humanized_spend: price_rate_map.get(mode, 1.0) per word.
humanized_spend(word_count, mode) ==
    word_count * (CASE mode = "easy" -> 100
                    [] mode = "medium" -> 120
                    [] mode = "aggressive" -> 150
                    [] OTHER -> 100)

\* InputProcessing.check_spend: 0.1 credit per word.
check_spend(word_count) == word_count * 10

\* ------------------------------------------------------------------ store
\* The rows of a table that satisfy filter_by(user_id=u).
filter_by_user(table, u) == SelectSeq(table, LAMBDA r : r.user_id = u)

RECURSIVE SeqSum(_, _)
SeqSum(rows, col) ==
    IF rows = << >> THEN 0 ELSE rows[1][col] + SeqSum(Tail(rows), col)

\* func.sum(...).scalar(): NULL over no rows, else the sum.
sql_sum(rows, col) == IF rows = << >> THEN NULL ELSE Some(SeqSum(rows, col))

\* Python's `x or 0` on the scalar of a sum.
or_zero(x) == IF x = NULL THEN 0 ELSE IF x[1] = 0 THEN 0 ELSE x[1]

\* get_balance without the `or 0` of its two sums: the subtraction raises on
\* a sum over no rows and the except branch answers False.
get_balance_without_or_zero(u, ok) ==
    LET spend_total == sql_sum(filter_by_user(SpendHistory, u), "spend_credit")
        recharge_total == sql_sum(filter_by_user(RechargeHistory, u), "recharge_credit")
    IN  IF ok /\ spend_total # NULL /\ recharge_total # NULL
        THEN recharge_total[1] - spend_total[1]
        ELSE 0

\* MainForm.get_balance: recharge_total - spend_total, or False (0 in a
\* comparison) when the query raises.
get_balance(u, ok) ==
    IF ok
    THEN LET spend_total == or_zero(sql_sum(filter_by_user(SpendHistory, u), "spend_credit"))
             recharge_total == or_zero(sql_sum(filter_by_user(RechargeHistory, u), "recharge_credit"))
         IN  recharge_total - spend_total
    ELSE 0

\* UserForm.check_user_id_exists: False also when the query raises.
check_user_id_exists(u, ok) == ok /\ \E r \in User : r.user_id = u

\* ------------------------------------------------------------------ faults
\* The outcomes of one store access: it succeeds, or it raises while the
\* failure budget lasts.
Outcomes == IF faults < MaxFaults THEN {TRUE, FALSE} ELSE {TRUE}

Charge(ok) == faults' = IF ok THEN faults ELSE faults + 1

\* ------------------------------------------------------------------ requests
\* A worker is busy from the start of a request to its response.
Busy(p) == req[p] # Idle

\* The worker a new request is given: the first idle one.
FreeProc(p) == ~Busy(p) /\ \A q \in Procs : q < p => Busy(q)

\* Ticks of the clock before the first request of a behaviour.
InitClock == 4

CanStart(p) == FreeProc(p) /\ clock < InitClock + MaxCalls

\* A request returns: its worker is freed; the response stays until the next
\* step of any request.
Return(p, r, status) ==
    /\ req' = [req EXCEPT ![p] = Idle]
    /\ response' = [r EXCEPT !.pc = "done", !.status = status]

Goto(p, r, pc) == req' = [req EXCEPT ![p] = [r EXCEPT !.pc = pc]] /\ response' = Idle

\* A write that updates the latest row of the table instead of adding one.
insert_over_latest(table, row, ok) ==
    IF ~ok THEN table
    ELSE IF table = << >> THEN << row >>
    ELSE [table EXCEPT ![Len(table)] = row]

\* A committed insert appends the row; a failed one leaves the table as it is.
insert(table, row, ok) == IF ok THEN Append(table, row) ELSE table

\* ------------------------------------------------------------------ inputs
\* Users named by requests: a user_id that was never registered and the two
\* users registered before the first request.
Nobody == user_id(0)

Alice == user_id(1)

Bob == user_id(2)

\* An origin_text that is None: it has no word count.
AbsentText == -1

\* A user_email that is None.
AbsentEmail == "None"

\* The outcome of a call that raised instead of returning a result and a status.
Raised == -2

\* Requests to humanize: each validation outcome of process_humanized_text.
HumanizeInputs ==
    { [user_id |-> Alice,  word_count |-> 400, mode |-> "easy"],
      [user_id |-> Alice,  word_count |-> 300, mode |-> "aggressive"],
      [user_id |-> Alice,  word_count |-> 21,  mode |-> "medium"],
      [user_id |-> Alice,  word_count |-> 20,  mode |-> "easy"],
      [user_id |-> Alice,  word_count |-> 0,   mode |-> "easy"],
      [user_id |-> Alice,  word_count |-> 30,  mode |-> "turbo"],
      [user_id |-> Nobody, word_count |-> 400, mode |-> "easy"] }

ChunksInputs ==
    { [user_id |-> Alice, word_count |-> 300, mode |-> "aggressive"],
      [user_id |-> Alice, word_count |-> 20,  mode |-> "medium"] }

CheckInputs ==
    { [user_id |-> Alice,  word_count |-> 400, mode |-> "check"],
      [user_id |-> Alice,  word_count |-> 20,  mode |-> "check"],
      [user_id |-> Nobody, word_count |-> 30,  mode |-> "check"] }

\* Manual recharges: amount in cents, recharge_credit in hundredths of a credit.
RechargeInputs ==
    { [user_id |-> Alice,  amount |-> 400, recharge_credit |-> Credits(100)],
      [user_id |-> Alice,  amount |-> 400, recharge_credit |-> 0],
      [user_id |-> Nobody, amount |-> 400, recharge_credit |-> Credits(100)] }

\* What the text provider does during one billable action: its balance before
\* and after (NULL when the balance query fails) and whether the call itself
\* answered with an error document.
ProviderRuns(word_count) ==
    { [before |-> Some(9000), after |-> Some(9000 - word_count), error |-> FALSE],
      [before |-> Some(9000), after |-> Some(9000),              error |-> FALSE],
      [before |-> Some(9000), after |-> Some(9000),              error |-> TRUE],
      [before |-> Some(9000), after |-> NULL,                    error |-> FALSE],
      [before |-> NULL,       after |-> Some(9000),              error |-> FALSE] }

\* ------------------------------------------------------------------ debits
\* process_humanized_text, process_humanize_chunks, process_check_text up to
\* the first store query: the cost, the time, the check for empty arguments.
\* word_count(origin_text) runs first and raises on a text that is None.
StartDebit(p, task, in) ==
    /\ CanStart(p)
    /\ clock' = clock + 1
    /\ LET r == [op |-> task, pc |-> "check_user", user_id |-> in.user_id,
                 word_count |-> in.word_count, mode |-> in.mode,
                 spend |-> IF in.word_count = AbsentText THEN 0
                           ELSE IF task = "check" THEN check_spend(in.word_count)
                           ELSE humanized_spend(in.word_count, in.mode),
                 time |-> clock + 1, status |-> 0,
                 balance |-> NULL, api_token_spend |-> 0, balance_api_before |-> 0,
                 balance_api |-> 0, provider_error |-> FALSE]
       IN  IF in.word_count = AbsentText
           THEN Return(p, r, Raised)
           ELSE IF in.word_count = 0
           THEN Return(p, r, 400)
           ELSE req' = [req EXCEPT ![p] = r] /\ response' = Idle
    /\ UNCHANGED << tables, stripe, faults >>

Humanize(p, inputs) == \E in \in inputs : StartDebit(p, "humanized", in)

HumanizeChunks(p, inputs) == \E in \in inputs : StartDebit(p, "chunks", in)

Check(p, inputs) == \E in \in inputs : StartDebit(p, "check", in)

IsDebit(r) == r.op \in {"humanized", "chunks", "check"}

\* The word count check rejecting texts of fewer than 20 words only.
DebitCheckUser_below_20(p) ==
    LET r == req[p] IN
    /\ IsDebit(r) /\ r.pc = "check_user"
    /\ \E ok \in Outcomes :
        /\ Charge(ok)
        /\ IF ~check_user_id_exists(r.user_id, ok) THEN Return(p, r, 400)
           ELSE IF r.word_count < 20 THEN Return(p, r, 400)
           ELSE Goto(p, r, "get_balance")
    /\ UNCHANGED << tables, stripe, clock >>

\* The user check and the word count check.
DebitCheckUser(p) ==
    LET r == req[p] IN
    /\ IsDebit(r) /\ r.pc = "check_user"
    /\ \E ok \in Outcomes :
        /\ Charge(ok)
        /\ IF ~check_user_id_exists(r.user_id, ok) THEN Return(p, r, 400)
           ELSE IF r.word_count <= 20 THEN Return(p, r, 400)
           ELSE Goto(p, r, "get_balance")
    /\ UNCHANGED << tables, stripe, clock >>

\* The balance check asking for a positive balance instead of one that covers
\* the cost.
DebitGetBalance_positive(p) ==
    LET r == req[p] IN
    /\ IsDebit(r) /\ r.pc = "get_balance"
    /\ \E ok \in Outcomes :
        /\ Charge(ok)
        /\ LET b == get_balance(r.user_id, ok)
               rb == [r EXCEPT !.balance = Some(b)]
           IN  IF b <= 0 THEN Return(p, rb, 400)
               ELSE IF r.op # "check" /\ r.mode \notin {"easy", "medium", "aggressive"}
                    THEN Return(p, rb, 400)
               ELSE Goto(p, rb, "provider")
    /\ UNCHANGED << tables, stripe, clock >>

\* The balance check without the mode check after it.
DebitGetBalance_any_mode(p) ==
    LET r == req[p] IN
    /\ IsDebit(r) /\ r.pc = "get_balance"
    /\ \E ok \in Outcomes :
        /\ Charge(ok)
        /\ LET b == get_balance(r.user_id, ok)
               rb == [r EXCEPT !.balance = Some(b)]
           IN  IF r.spend > b THEN Return(p, rb, 400)
               ELSE Goto(p, rb, "provider")
    /\ UNCHANGED << tables, stripe, clock >>

\* The balance check, then the mode check.
DebitGetBalance(p) ==
    LET r == req[p] IN
    /\ IsDebit(r) /\ r.pc = "get_balance"
    /\ \E ok \in Outcomes :
        /\ Charge(ok)
        /\ LET b == get_balance(r.user_id, ok)
               rb == [r EXCEPT !.balance = Some(b)]
           IN  IF r.spend > b THEN Return(p, rb, 400)
               ELSE IF r.op # "check" /\ r.mode \notin {"easy", "medium", "aggressive"}
                    THEN Return(p, rb, 400)
               ELSE Goto(p, rb, "provider")
    /\ UNCHANGED << tables, stripe, clock >>

\* The provider's balance, the call, the balance again, the provider's cost.
\* A failed balance query has no 'balance' and the subtraction raises.  Only
\* the humanize flows replace a cost of zero by the word count.
DebitProvider(p) ==
    LET r == req[p] IN
    /\ IsDebit(r) /\ r.pc = "provider"
    /\ \E run \in ProviderRuns(r.word_count) :
        IF run.before = NULL \/ run.after = NULL
        THEN Return(p, r, 500)
        ELSE LET delta == run.before[1] - run.after[1]
                 cost == IF delta = 0 /\ r.op # "check" THEN r.word_count ELSE delta
             IN  Goto(p, [r EXCEPT !.api_token_spend = cost,
                                   !.balance_api_before = run.before[1],
                                   !.balance_api = run.after[1],
                                   !.provider_error = run.error], "add_history")
    /\ UNCHANGED << tables, stripe, clock, faults >>

\* add_humanized_history / add_check_history, committed on its own.
DebitAddHistory(p) ==
    LET r == req[p]
        row == [user_id |-> r.user_id, time |-> r.time, words |-> r.word_count,
                type |-> "normal"]
    IN
    /\ IsDebit(r) /\ r.pc = "add_history"
    /\ \E ok \in Outcomes :
        /\ Charge(ok)
        /\ IF r.op = "check"
           THEN /\ CheckHistory' = insert(CheckHistory, row, ok)
                /\ UNCHANGED HumanizedHistory
           ELSE /\ HumanizedHistory' = insert(HumanizedHistory, row, ok)
                /\ UNCHANGED CheckHistory
        /\ IF ok THEN Goto(p, r, "add_spend") ELSE Return(p, r, 500)
    /\ UNCHANGED << User, SpendHistory, RechargeHistory, ApiHistory, PaymentIntent,
                    PaymentResult, ReferCode, ReferHistory, stripe, clock >>

\* Every flow writing the task of the humanize flows.
task_of_humanize_flows(r) == "humanized"

\* The spend_type written by the flow: task is 'humanized' or 'check'.
task_of(r) == IF r.op = "check" THEN "check" ELSE "humanized"

\* add_spend_history, committed on its own.
DebitAddSpend(p) ==
    LET r == req[p]
        row == [user_id |-> r.user_id, time |-> r.time, spend_credit |-> r.spend,
                spend_type |-> task_of(r)]
    IN
    /\ IsDebit(r) /\ r.pc = "add_spend"
    /\ \E ok \in Outcomes :
        /\ Charge(ok)
        /\ SpendHistory' = insert(SpendHistory, row, ok)
        /\ IF ok THEN Goto(p, r, "add_api") ELSE Return(p, r, 500)
    /\ UNCHANGED << User, HumanizedHistory, CheckHistory, RechargeHistory, ApiHistory,
                    PaymentIntent, PaymentResult, ReferCode, ReferHistory, stripe, clock >>

\* add_api_history, committed on its own; then the response.  The rollback
\* of the except branch finds nothing uncommitted.
DebitAddApi(p) ==
    LET r == req[p]
        row == [user_id |-> r.user_id, time |-> r.time, usage_type |-> task_of(r),
                spend_words |-> r.api_token_spend, balance_api |-> r.balance_api]
    IN
    /\ IsDebit(r) /\ r.pc = "add_api"
    /\ \E ok \in Outcomes :
        /\ Charge(ok)
        /\ ApiHistory' = insert(ApiHistory, row, ok)
        /\ Return(p, r, IF ok THEN 200 ELSE 500)
    /\ UNCHANGED << User, HumanizedHistory, CheckHistory, SpendHistory, RechargeHistory,
                    PaymentIntent, PaymentResult, ReferCode, ReferHistory, stripe, clock >>

\* ------------------------------------------------------------------ balance
BalanceInputs == { Alice, Nobody }

\* MainService.get_balance up to the user check.  `failed` is no part of
\* the program: it records that a store access of the request raised.
GetBalance(p, inputs) ==
    /\ CanStart(p)
    /\ clock' = clock + 1
    /\ \E u \in inputs :
        req' = [req EXCEPT ![p] =
                   [op |-> "get_balance", pc |-> "check_user", user_id |-> u,
                    balance |-> NULL, failed |-> FALSE, time |-> clock + 1, status |-> 0]]
    /\ response' = Idle
    /\ UNCHANGED << tables, stripe, faults >>

BalanceCheckUser(p) ==
    LET r == req[p] IN
    /\ r.op = "get_balance" /\ r.pc = "check_user"
    /\ \E ok \in Outcomes :
        /\ Charge(ok)
        /\ IF ~check_user_id_exists(r.user_id, ok)
           THEN Return(p, [r EXCEPT !.failed = ~ok], 400)
           ELSE Goto(p, r, "get_balance")
    /\ UNCHANGED << tables, stripe, clock >>

\* The balance is returned as the form answers it, False included.
BalanceRead(p) ==
    LET r == req[p] IN
    /\ r.op = "get_balance" /\ r.pc = "get_balance"
    /\ \E ok \in Outcomes :
        /\ Charge(ok)
        /\ Return(p, [r EXCEPT !.balance = Some(get_balance(r.user_id, ok)),
                               !.failed = ~ok], 200)
    /\ UNCHANGED << tables, stripe, clock >>

\* ------------------------------------------------------------------ recharge
\* process_recharge up to the user check; 0 and '' are empty arguments.
Recharge(p, inputs) ==
    /\ CanStart(p)
    /\ clock' = clock + 1
    /\ \E in \in inputs :
        LET r == [op |-> "recharge", pc |-> "check_user", user_id |-> in.user_id,
                  amount |-> in.amount, recharge_credit |-> in.recharge_credit,
                  time |-> clock + 1, status |-> 0]
        IN  IF in.amount = 0 \/ in.recharge_credit = 0
            THEN Return(p, r, 400)
            ELSE req' = [req EXCEPT ![p] = r] /\ response' = Idle
    /\ UNCHANGED << tables, stripe, faults >>

RechargeCheckUser(p) ==
    LET r == req[p] IN
    /\ r.op = "recharge" /\ r.pc = "check_user"
    /\ \E ok \in Outcomes :
        /\ Charge(ok)
        /\ IF ~check_user_id_exists(r.user_id, ok) THEN Return(p, r, 400)
           ELSE Goto(p, r, "add_recharge")
    /\ UNCHANGED << tables, stripe, clock >>

RechargeAdd(p) ==
    LET r == req[p]
        row == [user_id |-> r.user_id, time |-> r.time, amount |-> r.amount,
                currency |-> "USD", recharge_credit |-> r.recharge_credit,
                recharge_type |-> "normal", origin |-> << "manual" >>]
    IN
    /\ r.op = "recharge" /\ r.pc = "add_recharge"
    /\ \E ok \in Outcomes :
        /\ Charge(ok)
        /\ RechargeHistory' = insert(RechargeHistory, row, ok)
        /\ Return(p, r, IF ok THEN 200 ELSE 500)
    /\ UNCHANGED << User, HumanizedHistory, CheckHistory, SpendHistory, ApiHistory,
                    PaymentIntent, PaymentResult, ReferCode, ReferHistory, stripe, clock >>

\* ------------------------------------------------------------------ register
\* A welcome gift of 100 credits.
gift_of_100(u, t) == [user_id |-> u, time |-> t, amount |-> 0, currency |-> "USD",
                      recharge_credit |-> Credits(100), recharge_type |-> "gift",
                      origin |-> << "gift" >>]

\* The welcome gift of register_user.  `origin` is no column of the table: it
\* names what a recharge row was written for (the payment result, the referee),
\* and only the statements about the ledger read it.
gift(u, t) == [user_id |-> u, time |-> t, amount |-> 0, currency |-> "USD",
               recharge_credit |-> Credits(500), recharge_type |-> "gift",
               origin |-> << "gift" >>]

RegisterInputs == { "alice@x", "carol@x", "" }

\* UserForm.check_user_email_exists: False also when the query raises.
check_user_email_exists(e, ok) == ok /\ \E r \in User : r.user_email = e

\* register_user up to the email check; user_email.lower() runs before the
\* check for empty arguments and raises on an email that is None.
Register(p, inputs) ==
    /\ CanStart(p)
    /\ clock' = clock + 1
    /\ \E e \in inputs :
        LET r == [op |-> "register", pc |-> "check_email", user_id |-> user_id(clock + 1),
                  user_email |-> e, time |-> clock + 1, status |-> 0]
        IN  IF e = AbsentEmail THEN Return(p, r, Raised)
            ELSE IF e = "" THEN Return(p, r, 400)
            ELSE req' = [req EXCEPT ![p] = r] /\ response' = Idle
    /\ UNCHANGED << tables, stripe, faults >>

RegisterCheckEmail(p) ==
    LET r == req[p] IN
    /\ r.op = "register" /\ r.pc = "check_email"
    /\ \E ok \in Outcomes :
        /\ Charge(ok)
        /\ IF check_user_email_exists(r.user_email, ok) THEN Return(p, r, 400)
           ELSE Goto(p, r, "add_user")
    /\ UNCHANGED << tables, stripe, clock >>

\* add_user on a user table whose email column is not unique.
RegisterAddUser_email_not_unique(p) ==
    LET r == req[p] IN
    /\ r.op = "register" /\ r.pc = "add_user"
    /\ \E ok \in Outcomes :
        /\ Charge(ok)
        /\ LET added == ok /\ \A u \in User : u.user_id # r.user_id
           IN  /\ User' = IF added
                          THEN User \cup { [user_id |-> r.user_id, user_name |-> "new",
                                            user_email |-> r.user_email,
                                            password_hash |-> "sha256",
                                            created_at |-> r.time,
                                            updated_at |-> r.time] }
                          ELSE User
               /\ IF added THEN Goto(p, r, "add_recharge") ELSE Return(p, r, 500)
    /\ UNCHANGED << HumanizedHistory, CheckHistory, SpendHistory, RechargeHistory, ApiHistory,
                    PaymentIntent, PaymentResult, ReferCode, ReferHistory, stripe, clock >>

\* UserForm.add_user in its own session: the primary key and the unique email
\* reject the row.
RegisterAddUser(p) ==
    LET r == req[p] IN
    /\ r.op = "register" /\ r.pc = "add_user"
    /\ \E ok \in Outcomes :
        /\ Charge(ok)
        /\ LET added == /\ ok
                        /\ \A u \in User : u.user_id # r.user_id /\ u.user_email # r.user_email
           IN  /\ User' = IF added
                          THEN User \cup { [user_id |-> r.user_id, user_name |-> "new",
                                            user_email |-> r.user_email,
                                            password_hash |-> "sha256",
                                            created_at |-> r.time,
                                            updated_at |-> r.time] }
                          ELSE User
               /\ IF added THEN Goto(p, r, "add_recharge") ELSE Return(p, r, 500)
    /\ UNCHANGED << HumanizedHistory, CheckHistory, SpendHistory, RechargeHistory, ApiHistory,
                    PaymentIntent, PaymentResult, ReferCode, ReferHistory, stripe, clock >>

RegisterAddRecharge(p) ==
    LET r == req[p] IN
    /\ r.op = "register" /\ r.pc = "add_recharge"
    /\ \E ok \in Outcomes :
        /\ Charge(ok)
        /\ RechargeHistory' = insert(RechargeHistory, gift(r.user_id, r.time), ok)
        /\ Return(p, r, IF ok THEN 200 ELSE 500)
    /\ UNCHANGED << User, HumanizedHistory, CheckHistory, SpendHistory, ApiHistory,
                    PaymentIntent, PaymentResult, ReferCode, ReferHistory, stripe, clock >>

\* ------------------------------------------------------------------ delete
DeleteInputs == { Alice, Bob, Nobody }

\* delete_user up to the user check.
DeleteUser(p, inputs) ==
    /\ CanStart(p)
    /\ clock' = clock + 1
    /\ \E u \in inputs :
        req' = [req EXCEPT ![p] =
                   [op |-> "delete_user", pc |-> "check_user", user_id |-> u,
                    time |-> clock + 1, status |-> 0]]
    /\ response' = Idle
    /\ UNCHANGED << tables, stripe, faults >>

DeleteCheckUser(p) ==
    LET r == req[p] IN
    /\ r.op = "delete_user" /\ r.pc = "check_user"
    /\ \E ok \in Outcomes :
        /\ Charge(ok)
        /\ IF ~check_user_id_exists(r.user_id, ok) THEN Return(p, r, 400)
           ELSE Goto(p, r, "delete")
    /\ UNCHANGED << tables, stripe, clock >>

\* A deletion that takes the user's recharge rows with the user row.
DeleteRemove_cascade(p) ==
    LET r == req[p] IN
    /\ r.op = "delete_user" /\ r.pc = "delete"
    /\ \E ok \in Outcomes :
        /\ Charge(ok)
        /\ User' = IF ok THEN { u \in User : u.user_id # r.user_id } ELSE User
        /\ RechargeHistory' =
              IF ok THEN SelectSeq(RechargeHistory, LAMBDA row : row.user_id # r.user_id)
              ELSE RechargeHistory
        /\ Return(p, r, IF ok THEN 200 ELSE 500)
    /\ UNCHANGED << HumanizedHistory, CheckHistory, SpendHistory, ApiHistory,
                    PaymentIntent, PaymentResult, ReferCode, ReferHistory, stripe, clock >>

\* UserForm.delete_user: the row of the user table, if there is one, is
\* deleted and committed; no other table is named.
DeleteRemove(p) ==
    LET r == req[p] IN
    /\ r.op = "delete_user" /\ r.pc = "delete"
    /\ \E ok \in Outcomes :
        /\ Charge(ok)
        /\ User' = IF ok THEN { u \in User : u.user_id # r.user_id } ELSE User
        /\ Return(p, r, IF ok THEN 200 ELSE 500)
    /\ UNCHANGED << HumanizedHistory, CheckHistory, SpendHistory, RechargeHistory, ApiHistory,
                    PaymentIntent, PaymentResult, ReferCode, ReferHistory, stripe, clock >>

\* ------------------------------------------------------------------ payment
\* The provider's name of its i-th intent and that intent's client secret.
result_id(i) == << "pi", i >>

client_secret(i) == << "pi", i, "secret" >>

\* get_credit reading the USD table for every currency.
get_credit_usd_only(amount, currency) ==
    CASE amount = 400 -> Credits(500)
      [] amount = 700 -> Credits(1000)
      [] amount = 1400 -> Credits(2000)
      [] amount = 2800 -> Credits(4500)
      [] amount = 7000 -> Credits(12000)
      [] amount = 14000 -> Credits(25000)
      [] OTHER -> 0

\* InputProcessing.get_credit: the credit of (amount in cents, currency), 0
\* when the amount is no key of the currency's table.
get_credit(amount, currency) ==
    CASE currency = "cny" /\ amount = 2900 -> Credits(500)
      [] currency = "cny" /\ amount = 4900 -> Credits(1000)
      [] currency = "cny" /\ amount = 9900 -> Credits(2000)
      [] currency = "cny" /\ amount = 19900 -> Credits(4500)
      [] currency = "cny" /\ amount = 49900 -> Credits(12000)
      [] currency = "cny" /\ amount = 99900 -> Credits(25000)
      [] currency = "usd" /\ amount = 400 -> Credits(500)
      [] currency = "usd" /\ amount = 700 -> Credits(1000)
      [] currency = "usd" /\ amount = 1400 -> Credits(2000)
      [] currency = "usd" /\ amount = 2800 -> Credits(4500)
      [] currency = "usd" /\ amount = 7000 -> Credits(12000)
      [] currency = "usd" /\ amount = 14000 -> Credits(25000)
      [] currency = "cad" /\ amount = 700 -> Credits(500)
      [] currency = "cad" /\ amount = 1240 -> Credits(1000)
      [] currency = "cad" /\ amount = 2480 -> Credits(2000)
      [] currency = "cad" /\ amount = 4960 -> Credits(4500)
      [] currency = "cad" /\ amount = 12400 -> Credits(12000)
      [] currency = "cad" /\ amount = 24800 -> Credits(25000)
      [] OTHER -> 0

\* str.upper() on the currency codes in use.
upper(currency) ==
    CASE currency = "usd" -> "USD"
      [] currency = "cny" -> "CNY"
      [] currency = "cad" -> "CAD"
      [] currency = "eur" -> "EUR"
      [] OTHER -> currency

IntentInputs ==
    { [user_id |-> Alice,  amount |-> 400, currency |-> "usd",
       payment_servers_type |-> "stripe"],
      [user_id |-> Alice,  amount |-> 500, currency |-> "usd",
       payment_servers_type |-> "stripe"],
      [user_id |-> Alice,  amount |-> 400, currency |-> "eur",
       payment_servers_type |-> "stripe"],
      [user_id |-> Nobody, amount |-> 400, currency |-> "usd",
       payment_servers_type |-> "stripe"],
      [user_id |-> Alice,  amount |-> 400, currency |-> "usd",
       payment_servers_type |-> "airwallex"] }

\* stripe.PaymentIntent.create, or Airwallex's create: a new unpaid intent at
\* the provider that was asked.
new_intent(in) == [user_id |-> in.user_id, amount |-> in.amount, currency |-> in.currency,
                   payment_servers_type |-> in.payment_servers_type,
                   status |-> "requires_payment_method", amount_received |-> 0]

\* get_payment_intent_key up to the user check: the provider is called first.
\* StripeAPI.get_client_secret returns None when the call fails, and the flow
\* goes on with it; AirwallexAPI.get_client_secret returns None too, and the
\* .get on it raises.
PaymentIntentKey(p, inputs) ==
    /\ CanStart(p)
    /\ clock' = clock + 1
    /\ \E in \in inputs, created \in BOOLEAN :
        LET r == [op |-> "payment_intent", pc |-> "check_user", user_id |-> in.user_id,
                  amount |-> in.amount, currency |-> upper(in.currency),
                  payment_servers_type |-> in.payment_servers_type,
                  client_secret |-> IF created THEN Some(client_secret(Len(stripe) + 1))
                                    ELSE NULL,
                  time |-> clock + 1, status |-> 0]
        IN  /\ stripe' = IF created THEN Append(stripe, new_intent(in)) ELSE stripe
            /\ IF ~created /\ in.payment_servers_type = "airwallex"
               THEN Return(p, r, 500)
               ELSE req' = [req EXCEPT ![p] = r] /\ response' = Idle
    /\ UNCHANGED << tables, faults >>

IntentCheckUser(p) ==
    LET r == req[p] IN
    /\ r.op = "payment_intent" /\ r.pc = "check_user"
    /\ \E ok \in Outcomes :
        /\ Charge(ok)
        /\ IF ~check_user_id_exists(r.user_id, ok) THEN Return(p, r, 400)
           ELSE Goto(p, r, "add_intent")
    /\ UNCHANGED << tables, stripe, clock >>

\* add_payment_intent on a table whose client_secret column accepts NULL.
IntentAdd_nullable(p) ==
    LET r == req[p] IN
    /\ r.op = "payment_intent" /\ r.pc = "add_intent"
    /\ \E ok \in Outcomes :
        /\ Charge(ok)
        /\ LET secret == IF r.client_secret = NULL THEN NULL ELSE r.client_secret[1]
               added == /\ ok
                        /\ \A i \in 1 .. Len(PaymentIntent) :
                              PaymentIntent[i].client_secret # secret
               row == [user_id |-> r.user_id, amount |-> r.amount, currency |-> r.currency,
                       client_secret |-> secret, time |-> r.time]
           IN  /\ PaymentIntent' = insert(PaymentIntent, row, added)
               /\ Return(p, r, IF added THEN 200 ELSE 500)
    /\ UNCHANGED << User, HumanizedHistory, CheckHistory, SpendHistory, RechargeHistory,
                    ApiHistory, PaymentResult, ReferCode, ReferHistory, stripe, clock >>

\* PaymentForm.add_payment_intent: client_secret is NOT NULL and unique.
IntentAdd(p) ==
    LET r == req[p] IN
    /\ r.op = "payment_intent" /\ r.pc = "add_intent"
    /\ \E ok \in Outcomes :
        /\ Charge(ok)
        /\ LET added == /\ ok
                        /\ r.client_secret # NULL
                        /\ \A i \in 1 .. Len(PaymentIntent) :
                              PaymentIntent[i].client_secret # r.client_secret[1]
               row == [user_id |-> r.user_id, amount |-> r.amount, currency |-> r.currency,
                       client_secret |-> r.client_secret[1], time |-> r.time]
           IN  /\ PaymentIntent' = insert(PaymentIntent, row, added)
               /\ Return(p, r, IF added THEN 200 ELSE 500)
    /\ UNCHANGED << User, HumanizedHistory, CheckHistory, SpendHistory, RechargeHistory,
                    ApiHistory, PaymentResult, ReferCode, ReferHistory, stripe, clock >>

\* The customer pays at the provider: the intent succeeds in full, succeeds
\* with less received than asked, or is still processing.
CustomerPays ==
    /\ \E i \in 1 .. Len(stripe) :
        \/ /\ stripe[i].status \in {"requires_payment_method", "processing"}
           /\ stripe' = [stripe EXCEPT ![i].status = "succeeded",
                                       ![i].amount_received = stripe[i].amount]
        \/ /\ stripe[i].status = "requires_payment_method"
           /\ stripe' = [stripe EXCEPT ![i].status = "succeeded",
                                       ![i].amount_received = stripe[i].amount - 100]
        \/ /\ stripe[i].status = "requires_payment_method"
           /\ stripe' = [stripe EXCEPT ![i].status = "processing"]
    /\ response' = Idle
    /\ UNCHANGED << tables, clock, req, faults >>

\* Result ids a confirmation may name: the provider's intents and an unknown one.
ResultIds == { result_id(i) : i \in 1 .. Len(stripe) } \cup { result_id(0) }

\* The look-up of a secret answering for any secret once the table has a row.
check_client_secret_exists_any(secret, ok) == ok /\ PaymentIntent # << >>

\* PaymentForm.check_client_secret_exists: False also when the query raises.
check_client_secret_exists(secret, ok) ==
    ok /\ \E i \in 1 .. Len(PaymentIntent) : PaymentIntent[i].client_secret = secret

\* PaymentForm.check_payment_result_id_exists: False also when the query raises.
check_payment_result_id_exists(rid, ok) ==
    ok /\ \E i \in 1 .. Len(PaymentResult) : PaymentResult[i].result_id = rid

\* process_payment_result up to the user check: the provider's answer
\* (StripeAPI.get_payment_result returns None when the call fails, and the
\* first subscript of None raises), the time, the converted values.
PaymentResultCall(p, inputs) ==
    /\ CanStart(p)
    /\ clock' = clock + 1
    /\ \E rid \in inputs, answered \in BOOLEAN :
        LET i == rid[2]
            r0 == [op |-> "payment_result", pc |-> "check_user", result_id |-> rid,
                   time |-> clock + 1, status |-> 0, fetched |-> FALSE]
        IN  IF ~answered \/ i = 0 \/ stripe[i].payment_servers_type # "stripe"
            THEN Return(p, r0, 500)
            ELSE /\ req' = [req EXCEPT ![p] =
                        [op |-> "payment_result", pc |-> "check_user", result_id |-> rid,
                         time |-> clock + 1, status |-> 0, fetched |-> TRUE,
                         user_id |-> stripe[i].user_id,
                         client_secret |-> client_secret(i),
                         amount |-> stripe[i].amount,
                         amount_received |-> stripe[i].amount_received,
                         amount_converted |-> stripe[i].amount_received,
                         recharge_credit |-> get_credit(stripe[i].amount, stripe[i].currency),
                         currency |-> upper(stripe[i].currency),
                         provider_status |-> stripe[i].status]]
                 /\ response' = Idle
    /\ UNCHANGED << tables, stripe, faults >>

IsConfirm(r) == r.op = "payment_result"

ConfirmCheckUser(p) ==
    LET r == req[p] IN
    /\ IsConfirm(r) /\ r.pc = "check_user"
    /\ \E ok \in Outcomes :
        /\ Charge(ok)
        /\ IF ~check_user_id_exists(r.user_id, ok) THEN Return(p, r, 400)
           ELSE Goto(p, r, "check_secret")
    /\ UNCHANGED << tables, stripe, clock >>

ConfirmCheckSecret(p) ==
    LET r == req[p] IN
    /\ IsConfirm(r) /\ r.pc = "check_secret"
    /\ \E ok \in Outcomes :
        /\ Charge(ok)
        /\ IF ~check_client_secret_exists(r.client_secret, ok) THEN Return(p, r, 400)
           ELSE Goto(p, r, "check_result")
    /\ UNCHANGED << tables, stripe, clock >>

\* The success test without the comparison of the amounts.
succeeded_by_status(r) == r.provider_status = "succeeded"

\* status == "succeeded" and amount == amount_received
succeeded(r) == r.provider_status = "succeeded" /\ r.amount = r.amount_received

\* The confirmation without its look-up of an earlier result.
ConfirmCheckResult_unchecked(p) ==
    LET r == req[p] IN
    /\ IsConfirm(r) /\ r.pc = "check_result"
    /\ \E ok \in Outcomes :
        /\ Charge(ok)
        /\ Goto(p, r, IF succeeded(r) THEN "add_recharge" ELSE "add_result")
    /\ UNCHANGED << tables, stripe, clock >>

\* The look-up of an earlier result counting only the rows of succeeded payments.
ConfirmCheckResult_succeeded_only(p) ==
    LET r == req[p] IN
    /\ IsConfirm(r) /\ r.pc = "check_result"
    /\ \E ok \in Outcomes :
        /\ Charge(ok)
        /\ IF ok /\ \E i \in 1 .. Len(PaymentResult) :
                        /\ PaymentResult[i].result_id = r.result_id
                        /\ PaymentResult[i].status = "succeeded"
           THEN Return(p, r, 400)
           ELSE Goto(p, r, IF succeeded(r) THEN "add_recharge" ELSE "add_result")
    /\ UNCHANGED << tables, stripe, clock >>

ConfirmCheckResult(p) ==
    LET r == req[p] IN
    /\ IsConfirm(r) /\ r.pc = "check_result"
    /\ \E ok \in Outcomes :
        /\ Charge(ok)
        /\ IF check_payment_result_id_exists(r.result_id, ok) THEN Return(p, r, 400)
           ELSE Goto(p, r, IF succeeded(r) THEN "add_recharge" ELSE "add_result")
    /\ UNCHANGED << tables, stripe, clock >>

\* add_recharge_history of a succeeded payment recording every payment in USD.
ConfirmAddRecharge_usd(p) ==
    LET r == req[p]
        row == [user_id |-> r.user_id, time |-> r.time, amount |-> r.amount_converted,
                currency |-> "USD", recharge_credit |-> r.recharge_credit,
                recharge_type |-> "payment", origin |-> r.result_id]
    IN
    /\ IsConfirm(r) /\ r.pc = "add_recharge"
    /\ \E ok \in Outcomes :
        /\ Charge(ok)
        /\ RechargeHistory' = insert(RechargeHistory, row, ok)
        /\ IF ok THEN Goto(p, r, "add_result") ELSE Return(p, r, 500)
    /\ UNCHANGED << User, HumanizedHistory, CheckHistory, SpendHistory, ApiHistory,
                    PaymentIntent, PaymentResult, ReferCode, ReferHistory, stripe, clock >>

\* add_recharge_history of a succeeded payment, committed on its own.
ConfirmAddRecharge(p) ==
    LET r == req[p]
        row == [user_id |-> r.user_id, time |-> r.time, amount |-> r.amount_converted,
                currency |-> r.currency, recharge_credit |-> r.recharge_credit,
                recharge_type |-> "payment", origin |-> r.result_id]
    IN
    /\ IsConfirm(r) /\ r.pc = "add_recharge"
    /\ \E ok \in Outcomes :
        /\ Charge(ok)
        /\ RechargeHistory' = insert(RechargeHistory, row, ok)
        /\ IF ok THEN Goto(p, r, "add_result") ELSE Return(p, r, 500)
    /\ UNCHANGED << User, HumanizedHistory, CheckHistory, SpendHistory, ApiHistory,
                    PaymentIntent, PaymentResult, ReferCode, ReferHistory, stripe, clock >>

\* The last insert of a confirmation answering a refused duplicate as the
\* conflict of the look-up.
ConfirmAddResult_conflict(p) ==
    LET r == req[p] IN
    /\ IsConfirm(r) /\ r.pc = "add_result"
    /\ \E ok \in Outcomes :
        /\ Charge(ok)
        /\ LET duplicate == check_payment_result_id_exists(r.result_id, TRUE)
               added == ok /\ ~duplicate
               row == [user_id |-> r.user_id, result_id |-> r.result_id, amount |-> r.amount,
                       amount_received |-> r.amount_received,
                       client_secret |-> r.client_secret, currency |-> r.currency,
                       status |-> r.provider_status, time |-> r.time]
           IN  /\ PaymentResult' = insert(PaymentResult, row, added)
               /\ Return(p, r, IF added THEN 200 ELSE IF duplicate THEN 400 ELSE 500)
    /\ UNCHANGED << User, HumanizedHistory, CheckHistory, SpendHistory, RechargeHistory,
                    ApiHistory, PaymentIntent, ReferCode, ReferHistory, stripe, clock >>

\* add_payment_result on a table whose index on result_id is not unique.
ConfirmAddResult_not_unique(p) ==
    LET r == req[p] IN
    /\ IsConfirm(r) /\ r.pc = "add_result"
    /\ \E ok \in Outcomes :
        /\ Charge(ok)
        /\ LET row == [user_id |-> r.user_id, result_id |-> r.result_id, amount |-> r.amount,
                       amount_received |-> r.amount_received,
                       client_secret |-> r.client_secret, currency |-> r.currency,
                       status |-> r.provider_status, time |-> r.time]
           IN  /\ PaymentResult' = insert(PaymentResult, row, ok)
               /\ Return(p, r, IF ok THEN 200 ELSE 500)
    /\ UNCHANGED << User, HumanizedHistory, CheckHistory, SpendHistory, RechargeHistory,
                    ApiHistory, PaymentIntent, ReferCode, ReferHistory, stripe, clock >>

\* PaymentForm.add_payment_result: result_id is unique.  The rollback of the
\* except branch finds nothing uncommitted.
ConfirmAddResult(p) ==
    LET r == req[p] IN
    /\ IsConfirm(r) /\ r.pc = "add_result"
    /\ \E ok \in Outcomes :
        /\ Charge(ok)
        /\ LET added == ok /\ ~check_payment_result_id_exists(r.result_id, TRUE)
               row == [user_id |-> r.user_id, result_id |-> r.result_id, amount |-> r.amount,
                       amount_received |-> r.amount_received,
                       client_secret |-> r.client_secret, currency |-> r.currency,
                       status |-> r.provider_status, time |-> r.time]
           IN  /\ PaymentResult' = insert(PaymentResult, row, added)
               /\ Return(p, r, IF added THEN 200 ELSE 500)
    /\ UNCHANGED << User, HumanizedHistory, CheckHistory, SpendHistory, RechargeHistory,
                    ApiHistory, PaymentIntent, ReferCode, ReferHistory, stripe, clock >>

\* ------------------------------------------------------------------ update
\* Requests to update a profile: update_type and new_value as the caller's
\* JSON gives them. A new user_id is written as the tick it would name.
Mallory == user_id(9)

UpdateInputs ==
    { [user_id |-> Alice,  update_type |-> "user_name",     new_value |-> Some("al")],
      [user_id |-> Alice,  update_type |-> "user_email",    new_value |-> Some("al@x")],
      [user_id |-> Alice,  update_type |-> "user_email",    new_value |-> Some("bob@x")],
      [user_id |-> Alice,  update_type |-> "password_hash", new_value |-> Some("secret")],
      [user_id |-> Alice,  update_type |-> "user_id",       new_value |-> Some(Mallory)],
      [user_id |-> Alice,  update_type |-> "user_id",       new_value |-> Some(Bob)],
      [user_id |-> Alice,  update_type |-> "nickname",      new_value |-> Some("al")],
      [user_id |-> Alice,  update_type |-> "user_name",     new_value |-> NULL],
      [user_id |-> Nobody, update_type |-> "user_name",     new_value |-> Some("al")] }

\* update_user of the service up to the user check.
UpdateUser(p, inputs) ==
    /\ CanStart(p)
    /\ clock' = clock + 1
    /\ \E in \in inputs :
        LET r == [op |-> "update_user", pc |-> "check_user", user_id |-> in.user_id,
                  update_type |-> in.update_type, new_value |-> in.new_value,
                  time |-> clock + 1, status |-> 0]
        IN  IF in.new_value = NULL THEN Return(p, r, 400)
            ELSE req' = [req EXCEPT ![p] = r] /\ response' = Idle
    /\ UNCHANGED << tables, stripe, faults >>

UpdateCheckUser(p) ==
    LET r == req[p] IN
    /\ r.op = "update_user" /\ r.pc = "check_user"
    /\ \E ok \in Outcomes :
        /\ Charge(ok)
        /\ IF ~check_user_id_exists(r.user_id, ok) THEN Return(p, r, 400)
           ELSE Goto(p, r, "update")
    /\ UNCHANGED << tables, stripe, clock >>

\* setattr(user, field, new_value): the column of that name takes the value;
\* a name that is no column leaves the row as it is.
setattr(user, field, new_value) ==
    CASE field = "user_id" -> [user EXCEPT !.user_id = new_value]
      [] field = "user_name" -> [user EXCEPT !.user_name = new_value]
      [] field = "user_email" -> [user EXCEPT !.user_email = new_value]
      [] field = "password_hash" -> [user EXCEPT !.password_hash = new_value]
      [] OTHER -> user

\* UserForm.update_user: the row is read, changed and committed in one
\* transaction; the commit is refused when the primary key or the unique
\* email of the changed row is taken by another row.
UpdateSet(p) ==
    LET r == req[p] IN
    /\ r.op = "update_user" /\ r.pc = "update"
    /\ \E ok \in Outcomes :
        /\ Charge(ok)
        /\ LET found == { u \in User : u.user_id = r.user_id }
               others == User \ found
               changed == { [setattr(u, r.update_type, r.new_value[1])
                               EXCEPT !.updated_at = r.time] : u \in found }
               done == /\ ok /\ found # { }
                       /\ \A u \in changed : \A o \in others :
                              o.user_id # u.user_id /\ o.user_email # u.user_email
           IN  /\ User' = IF done THEN others \cup changed ELSE User
               /\ Return(p, r, IF done THEN 200 ELSE 500)
    /\ UNCHANGED << HumanizedHistory, CheckHistory, SpendHistory, RechargeHistory, ApiHistory,
                    PaymentIntent, PaymentResult, ReferCode, ReferHistory, stripe, clock >>

\* ------------------------------------------------------------------ referral
\* InputProcessing.generate_refer_code: determined by the user and the time.
generate_refer_code(u, t) == << "rc", u[2], t >>

\* ReferForm.get_refer_code_by_user_id: the user's code, None also when the
\* query raises.
get_refer_code_by_user_id(u, ok) ==
    LET rows == SelectSeq(ReferCode, LAMBDA c : c.refer_from_user_id = u)
    IN  IF ok /\ rows # << >> THEN Some(rows[1].refer_code) ELSE NULL

\* ReferForm.get_user_id_by_refer_code: the code's owner, None also when the
\* query raises.
get_user_id_by_refer_code(code, ok) ==
    LET rows == SelectSeq(ReferCode, LAMBDA c : c.refer_code = code)
    IN  IF ok /\ rows # << >> THEN Some(rows[1].refer_from_user_id) ELSE NULL

\* ReferForm.check_refer_history_exists: False also when the query raises.
check_refer_history_exists(u, ok) ==
    ok /\ \E i \in 1 .. Len(ReferHistory) : ReferHistory[i].refer_to_user_id = u

GetCodeInputs == { Alice, Bob, Nobody }

\* process_get_refer_code up to the user check.
GetReferCode(p, inputs) ==
    /\ CanStart(p)
    /\ clock' = clock + 1
    /\ \E u \in inputs :
        req' = [req EXCEPT ![p] =
                   [op |-> "get_refer_code", pc |-> "check_user", user_id |-> u,
                    refer_code |-> generate_refer_code(u, clock + 1),
                    time |-> clock + 1, status |-> 0]]
    /\ response' = Idle
    /\ UNCHANGED << tables, stripe, faults >>

GetCodeCheckUser(p) ==
    LET r == req[p] IN
    /\ r.op = "get_refer_code" /\ r.pc = "check_user"
    /\ \E ok \in Outcomes :
        /\ Charge(ok)
        /\ IF ~check_user_id_exists(r.user_id, ok) THEN Return(p, r, 400)
           ELSE Goto(p, r, "get_code")
    /\ UNCHANGED << tables, stripe, clock >>

\* The user's existing code is returned as it is.
GetCodeLookup(p) ==
    LET r == req[p] IN
    /\ r.op = "get_refer_code" /\ r.pc = "get_code"
    /\ \E ok \in Outcomes :
        /\ Charge(ok)
        /\ LET code == get_refer_code_by_user_id(r.user_id, ok)
           IN  IF code # NULL THEN Return(p, [r EXCEPT !.refer_code = code[1]], 200)
               ELSE Goto(p, r, "add_code")
    /\ UNCHANGED << tables, stripe, clock >>

\* create_new_refer_code on a table whose index on the owner is not unique.
GetCodeAdd_owner_not_unique(p) ==
    LET r == req[p] IN
    /\ r.op = "get_refer_code" /\ r.pc = "add_code"
    /\ \E ok \in Outcomes :
        /\ Charge(ok)
        /\ LET added == /\ ok
                        /\ \A i \in 1 .. Len(ReferCode) :
                              ReferCode[i].refer_code # r.refer_code
               row == [refer_from_user_id |-> r.user_id, refer_code |-> r.refer_code,
                       created_at |-> r.time]
           IN  /\ ReferCode' = insert(ReferCode, row, added)
               /\ Return(p, r, IF added THEN 200 ELSE 500)
    /\ UNCHANGED << User, HumanizedHistory, CheckHistory, SpendHistory, RechargeHistory,
                    ApiHistory, PaymentIntent, PaymentResult, ReferHistory, stripe, clock >>

\* ReferForm.create_new_refer_code: owner and code are unique.
GetCodeAdd(p) ==
    LET r == req[p] IN
    /\ r.op = "get_refer_code" /\ r.pc = "add_code"
    /\ \E ok \in Outcomes :
        /\ Charge(ok)
        /\ LET added == /\ ok
                        /\ \A i \in 1 .. Len(ReferCode) :
                              /\ ReferCode[i].refer_from_user_id # r.user_id
                              /\ ReferCode[i].refer_code # r.refer_code
               row == [refer_from_user_id |-> r.user_id, refer_code |-> r.refer_code,
                       created_at |-> r.time]
           IN  /\ ReferCode' = insert(ReferCode, row, added)
               /\ Return(p, r, IF added THEN 200 ELSE 500)
    /\ UNCHANGED << User, HumanizedHistory, CheckHistory, SpendHistory, RechargeHistory,
                    ApiHistory, PaymentIntent, PaymentResult, ReferHistory, stripe, clock >>

\* The code issued to Alice before the first request.
AliceCode == generate_refer_code(Alice, 4)

\* Thousandths of a credit in n whole credits: the unit of the recharge_credit
\* a redemption is called with, which is any number of the request body.
Thousandths(n) == n * 1000

\* A DECIMAL(10,2) column storing an amount given in thousandths: hundredths,
\* the nearest one.
decimal(amount) == (amount + 5) \div 10

\* recharge_credit * 0.25 and recharge_credit * 0.50: a recharge_credit in
\* thousandths times a rate in hundredths, in thousandths.  The fraction of a
\* thousandth that is dropped never changes the hundredth stored.
reward(credit, rate) == (credit * rate) \div 100

UseInputs ==
    { [user_id |-> Bob,    refer_code |-> AliceCode,       recharge_credit |-> Thousandths(100)],
      [user_id |-> Bob,    refer_code |-> AliceCode,       recharge_credit |-> 0],
      [user_id |-> Bob,    refer_code |-> AliceCode,       recharge_credit |-> 1010],
      [user_id |-> Bob,    refer_code |-> AliceCode,       recharge_credit |-> 4],
      [user_id |-> Bob,    refer_code |-> << "rc", 0, 0 >>, recharge_credit |-> Thousandths(100)],
      [user_id |-> Alice,  refer_code |-> AliceCode,       recharge_credit |-> Thousandths(100)],
      [user_id |-> Nobody, refer_code |-> AliceCode,       recharge_credit |-> Thousandths(100)] }
    \cup { [user_id |-> Alice, refer_code |-> ReferCode[i].refer_code,
            recharge_credit |-> Thousandths(40)] : i \in 1 .. Len(ReferCode) }

\* process_use_refer_code up to the user check: the two rewards.
UseReferCode(p, inputs) ==
    /\ CanStart(p)
    /\ clock' = clock + 1
    /\ \E in \in inputs :
        req' = [req EXCEPT ![p] =
                   [op |-> "use_refer_code", pc |-> "check_user", user_id |-> in.user_id,
                    refer_code |-> in.refer_code, recharge_credit |-> in.recharge_credit,
                    from_user_reward_credit |-> reward(in.recharge_credit, 25),
                    to_user_reward_credit |-> reward(in.recharge_credit, 50),
                    from_user_id |-> NULL, time |-> clock + 1, status |-> 0]]
    /\ response' = Idle
    /\ UNCHANGED << tables, stripe, faults >>

IsUse(r) == r.op = "use_refer_code"

UseCheckUser(p) ==
    LET r == req[p] IN
    /\ IsUse(r) /\ r.pc = "check_user"
    /\ \E ok \in Outcomes :
        /\ Charge(ok)
        /\ IF ~check_user_id_exists(r.user_id, ok) THEN Return(p, r, 400)
           ELSE Goto(p, r, "check_code")
    /\ UNCHANGED << tables, stripe, clock >>

\* The code must resolve; then recharge_credit must be positive.
UseCheckCode(p) ==
    LET r == req[p] IN
    /\ IsUse(r) /\ r.pc = "check_code"
    /\ \E ok \in Outcomes :
        /\ Charge(ok)
        /\ IF get_user_id_by_refer_code(r.refer_code, ok) = NULL THEN Return(p, r, 400)
           ELSE IF r.recharge_credit <= 0 THEN Return(p, r, 400)
           ELSE Goto(p, r, "check_history")
    /\ UNCHANGED << tables, stripe, clock >>

UseCheckHistory(p) ==
    LET r == req[p] IN
    /\ IsUse(r) /\ r.pc = "check_history"
    /\ \E ok \in Outcomes :
        /\ Charge(ok)
        /\ IF check_refer_history_exists(r.user_id, ok) THEN Return(p, r, 400)
           ELSE Goto(p, r, "get_owner")
    /\ UNCHANGED << tables, stripe, clock >>

\* The owner of the code is read again; a user cannot refer themselves.
UseGetOwner(p) ==
    LET r == req[p] IN
    /\ IsUse(r) /\ r.pc = "get_owner"
    /\ \E ok \in Outcomes :
        /\ Charge(ok)
        /\ LET from == get_user_id_by_refer_code(r.refer_code, ok)
           IN  IF from = NULL THEN Return(p, r, 400)
               ELSE IF from[1] = r.user_id THEN Return(p, r, 400)
               ELSE Goto(p, [r EXCEPT !.from_user_id = from], "add_history")
    /\ UNCHANGED << tables, stripe, clock >>

\* create_new_refer_history on a table without the unique index.
UseAddHistory_not_unique(p) ==
    LET r == req[p] IN
    /\ IsUse(r) /\ r.pc = "add_history"
    /\ \E ok \in Outcomes :
        /\ Charge(ok)
        /\ LET row == [refer_from_user_id |-> r.from_user_id[1],
                       refer_to_user_id |-> r.user_id, refer_code |-> r.refer_code,
                       refer_time |-> r.time,
                       recharge_credit |-> decimal(r.recharge_credit)]
           IN  /\ ReferHistory' = insert(ReferHistory, row, ok)
               /\ IF ok THEN Goto(p, r, "add_referee") ELSE Return(p, r, 500)
    /\ UNCHANGED << User, HumanizedHistory, CheckHistory, SpendHistory, RechargeHistory,
                    ApiHistory, PaymentIntent, PaymentResult, ReferCode, stripe, clock >>

\* ReferForm.create_new_refer_history: refer_to_user_id is unique.
UseAddHistory(p) ==
    LET r == req[p] IN
    /\ IsUse(r) /\ r.pc = "add_history"
    /\ \E ok \in Outcomes :
        /\ Charge(ok)
        /\ LET added == ok /\ ~check_refer_history_exists(r.user_id, TRUE)
               row == [refer_from_user_id |-> r.from_user_id[1],
                       refer_to_user_id |-> r.user_id, refer_code |-> r.refer_code,
                       refer_time |-> r.time,
                       recharge_credit |-> decimal(r.recharge_credit)]
           IN  /\ ReferHistory' = insert(ReferHistory, row, added)
               /\ IF added THEN Goto(p, r, "add_referee") ELSE Return(p, r, 500)
    /\ UNCHANGED << User, HumanizedHistory, CheckHistory, SpendHistory, RechargeHistory,
                    ApiHistory, PaymentIntent, PaymentResult, ReferCode, stripe, clock >>

\* A reward of a redemption: add_recharge_history on the main form's session.
refer_recharge(r, u, credit) ==
    [user_id |-> u, time |-> r.time, amount |-> 0, currency |-> "usd",
     recharge_credit |-> decimal(credit), recharge_type |-> "refer",
     origin |-> << "refer", r.user_id >>]

\* The reward of the referred user, committed on its own.
UseAddReferee(p) ==
    LET r == req[p] IN
    /\ IsUse(r) /\ r.pc = "add_referee"
    /\ \E ok \in Outcomes :
        /\ Charge(ok)
        /\ RechargeHistory' =
              insert(RechargeHistory, refer_recharge(r, r.user_id, r.to_user_reward_credit), ok)
        /\ IF ok THEN Goto(p, r, "add_referrer") ELSE Return(p, r, 500)
    /\ UNCHANGED << User, HumanizedHistory, CheckHistory, SpendHistory, ApiHistory,
                    PaymentIntent, PaymentResult, ReferCode, ReferHistory, stripe, clock >>

\* The reward of the referrer, committed on its own; then the response.  The
\* rollback of the except branch finds nothing uncommitted.
UseAddReferrer(p) ==
    LET r == req[p] IN
    /\ IsUse(r) /\ r.pc = "add_referrer"
    /\ \E ok \in Outcomes :
        /\ Charge(ok)
        /\ RechargeHistory' =
              insert(RechargeHistory,
                     refer_recharge(r, r.from_user_id[1], r.from_user_reward_credit), ok)
        /\ Return(p, r, IF ok THEN 200 ELSE 500)
    /\ UNCHANGED << User, HumanizedHistory, CheckHistory, SpendHistory, ApiHistory,
                    PaymentIntent, PaymentResult, ReferCode, ReferHistory, stripe, clock >>

\* ------------------------------------------------------------------ referral check
CodeCheckInputs ==
    { [user_id |-> Bob,    refer_code |-> AliceCode],
      [user_id |-> Alice,  refer_code |-> AliceCode],
      [user_id |-> Nobody, refer_code |-> AliceCode],
      [user_id |-> Bob,    refer_code |-> << "rc", 0, 0 >>] }

\* process_refer_code_check up to the user check.
ReferCodeCheck(p, inputs) ==
    /\ CanStart(p)
    /\ clock' = clock + 1
    /\ \E in \in inputs :
        req' = [req EXCEPT ![p] =
                   [op |-> "refer_code_check", pc |-> "check_user", user_id |-> in.user_id,
                    refer_code |-> in.refer_code, message |-> FALSE,
                    time |-> clock + 1, status |-> 0]]
    /\ response' = Idle
    /\ UNCHANGED << tables, stripe, faults >>

IsCodeCheck(r) == r.op = "refer_code_check"

\* Every failed check answers False with status 200.
CodeCheckUser(p) ==
    LET r == req[p] IN
    /\ IsCodeCheck(r) /\ r.pc = "check_user"
    /\ \E ok \in Outcomes :
        /\ Charge(ok)
        /\ IF ~check_user_id_exists(r.user_id, ok) THEN Return(p, r, 200)
           ELSE Goto(p, r, "check_code")
    /\ UNCHANGED << tables, stripe, clock >>

CodeCheckCode(p) ==
    LET r == req[p] IN
    /\ IsCodeCheck(r) /\ r.pc = "check_code"
    /\ \E ok \in Outcomes :
        /\ Charge(ok)
        /\ IF get_user_id_by_refer_code(r.refer_code, ok) = NULL THEN Return(p, r, 200)
           ELSE Goto(p, r, "check_history")
    /\ UNCHANGED << tables, stripe, clock >>

\* The check going on to the owner without asking for an earlier referral.
CodeCheckHistory_skipped(p) ==
    LET r == req[p] IN
    /\ IsCodeCheck(r) /\ r.pc = "check_history"
    /\ \E ok \in Outcomes :
        /\ Charge(ok)
        /\ Goto(p, r, "get_owner")
    /\ UNCHANGED << tables, stripe, clock >>

CodeCheckHistory(p) ==
    LET r == req[p] IN
    /\ IsCodeCheck(r) /\ r.pc = "check_history"
    /\ \E ok \in Outcomes :
        /\ Charge(ok)
        /\ IF check_refer_history_exists(r.user_id, ok) THEN Return(p, r, 200)
           ELSE Goto(p, r, "get_owner")
    /\ UNCHANGED << tables, stripe, clock >>

\* The owner of the code is read again; True when it is another user.
CodeCheckOwner(p) ==
    LET r == req[p] IN
    /\ IsCodeCheck(r) /\ r.pc = "get_owner"
    /\ \E ok \in Outcomes :
        /\ Charge(ok)
        /\ LET from == get_user_id_by_refer_code(r.refer_code, ok)
           IN  Return(p, [r EXCEPT !.message = from # NULL /\ from # Some(r.user_id)], 200)
    /\ UNCHANGED << tables, stripe, clock >>

\* ------------------------------------------------------------------ system
\* The store after Alice and Bob registered, Alice opened a payment of 4.00
\* USD (tick 3) and asked for her referral code (tick 4).
Init ==
    /\ User = { [user_id |-> Alice, user_name |-> "alice", user_email |-> "alice@x",
                 password_hash |-> "sha256", created_at |-> 1, updated_at |-> 1],
                [user_id |-> Bob, user_name |-> "bob", user_email |-> "bob@x",
                 password_hash |-> "sha256", created_at |-> 2, updated_at |-> 2] }
    /\ HumanizedHistory = << >>
    /\ CheckHistory = << >>
    /\ SpendHistory = << >>
    /\ RechargeHistory = << gift(Alice, 1), gift(Bob, 2) >>
    /\ ApiHistory = << >>
    /\ PaymentIntent = << [user_id |-> Alice, amount |-> 400, currency |-> "USD",
                           client_secret |-> client_secret(1), time |-> 3] >>
    /\ PaymentResult = << >>
    /\ ReferCode = << [refer_from_user_id |-> Alice, refer_code |-> AliceCode,
                       created_at |-> 4] >>
    /\ ReferHistory = << >>
    /\ stripe = << new_intent([user_id |-> Alice, amount |-> 400, currency |-> "usd",
                               payment_servers_type |-> "stripe"]) >>
    /\ clock = InitClock
    /\ req = [p \in Procs |-> Idle]
    /\ response = Idle
    /\ faults = 0

DebitOps(p) ==
    \/ Humanize(p, HumanizeInputs)
    \/ HumanizeChunks(p, ChunksInputs)
    \/ Check(p, CheckInputs)
    \/ DebitCheckUser(p)
    \/ DebitGetBalance(p)
    \/ DebitProvider(p)
    \/ DebitAddHistory(p)
    \/ DebitAddSpend(p)
    \/ DebitAddApi(p)

BalanceOps(p) == GetBalance(p, BalanceInputs) \/ BalanceCheckUser(p) \/ BalanceRead(p)

RechargeOps(p) == Recharge(p, RechargeInputs) \/ RechargeCheckUser(p) \/ RechargeAdd(p)

PaymentOps(p) ==
    \/ PaymentIntentKey(p, IntentInputs)
    \/ IntentCheckUser(p)
    \/ IntentAdd(p)
    \/ PaymentResultCall(p, ResultIds)
    \/ ConfirmCheckUser(p)
    \/ ConfirmCheckSecret(p)
    \/ ConfirmCheckResult(p)
    \/ ConfirmAddRecharge(p)
    \/ ConfirmAddResult(p)

ReferOps(p) ==
    \/ GetReferCode(p, GetCodeInputs)
    \/ GetCodeCheckUser(p)
    \/ GetCodeLookup(p)
    \/ GetCodeAdd(p)
    \/ UseReferCode(p, UseInputs)
    \/ UseCheckUser(p)
    \/ UseCheckCode(p)
    \/ UseCheckHistory(p)
    \/ UseGetOwner(p)
    \/ UseAddHistory(p)
    \/ UseAddReferee(p)
    \/ UseAddReferrer(p)

ReferCheckOps(p) ==
    \/ ReferCodeCheck(p, CodeCheckInputs)
    \/ CodeCheckUser(p)
    \/ CodeCheckCode(p)
    \/ CodeCheckHistory(p)
    \/ CodeCheckOwner(p)

\* Every operation that writes the store, one request at a time.
Next ==
    \/ Humanize(1, { [user_id |-> Alice, word_count |-> 400, mode |-> "easy"],
                     [user_id |-> Alice, word_count |-> 20, mode |-> "easy"] })
    \/ HumanizeChunks(1, { [user_id |-> Alice, word_count |-> 300, mode |-> "aggressive"] })
    \/ Check(1, { [user_id |-> Alice, word_count |-> 400, mode |-> "check"] })
    \/ DebitCheckUser(1)
    \/ DebitGetBalance(1)
    \/ DebitProvider(1)
    \/ DebitAddHistory(1)
    \/ DebitAddSpend(1)
    \/ DebitAddApi(1)
    \/ Recharge(1, { [user_id |-> Alice, amount |-> 400, recharge_credit |-> Credits(100)],
                     [user_id |-> Nobody, amount |-> 400, recharge_credit |-> Credits(100)] })
    \/ RechargeCheckUser(1)
    \/ RechargeAdd(1)
    \/ Register(1, { "carol@x", "alice@x" })
    \/ RegisterCheckEmail(1)
    \/ RegisterAddUser(1)
    \/ RegisterAddRecharge(1)
    \/ PaymentIntentKey(1, { [user_id |-> Alice, amount |-> 400, currency |-> "usd",
                              payment_servers_type |-> "stripe"] })
    \/ IntentCheckUser(1)
    \/ IntentAdd(1)
    \/ PaymentResultCall(1, { result_id(1) })
    \/ ConfirmCheckUser(1)
    \/ ConfirmCheckSecret(1)
    \/ ConfirmCheckResult(1)
    \/ ConfirmAddRecharge(1)
    \/ ConfirmAddResult(1)
    \/ CustomerPays
    \/ GetReferCode(1, { Bob })
    \/ GetCodeCheckUser(1)
    \/ GetCodeLookup(1)
    \/ GetCodeAdd(1)
    \/ UseReferCode(1, { [user_id |-> Bob, refer_code |-> AliceCode,
                          recharge_credit |-> Thousandths(100)],
                         [user_id |-> Alice, refer_code |-> AliceCode,
                          recharge_credit |-> Thousandths(100)] })
    \/ UseCheckUser(1)
    \/ UseCheckCode(1)
    \/ UseCheckHistory(1)
    \/ UseGetOwner(1)
    \/ UseAddHistory(1)
    \/ UseAddReferee(1)
    \/ UseAddReferrer(1)

Spec == Init /\ [][Next]_vars

\* Debits and manual recharges of concurrent requests.
NextDebit == \E p \in Procs : DebitOps(p) \/ RechargeOps(p)

SpecDebit == Init /\ [][NextDebit]_vars

\* Debits, manual recharges and balance queries, one request at a time.
NextDebitSeq == DebitOps(1) \/ RechargeOps(1) \/ BalanceOps(1)

SpecDebitSeq == Init /\ [][NextDebitSeq]_vars

\* Payments of concurrent requests.
NextPay == CustomerPays \/ \E p \in Procs : PaymentOps(p)

SpecPay == Init /\ [][NextPay]_vars

\* Payments, one request at a time.
NextPaySeq == CustomerPays \/ PaymentOps(1)

SpecPaySeq == Init /\ [][NextPaySeq]_vars

\* Referrals of concurrent requests.
NextRefer == \E p \in Procs : ReferOps(p)

SpecRefer == Init /\ [][NextRefer]_vars

\* Referrals and referral checks, one request at a time.
NextReferSeq == ReferOps(1) \/ ReferCheckOps(1)

SpecReferSeq == Init /\ [][NextReferSeq]_vars

\* Requests to humanize 100 words by the users a registration of the
\* behaviour may have created.
NewcomerInputs ==
    { [user_id |-> user_id(t), word_count |-> 100, mode |-> "easy"] :
        t \in InitClock + 1 .. InitClock + MaxCalls }

\* Registrations, and the balance queries and humanizations of the registered,
\* one request at a time.
NextRegister ==
    \/ Register(1, RegisterInputs)
    \/ RegisterCheckEmail(1)
    \/ RegisterAddUser(1)
    \/ RegisterAddRecharge(1)
    \/ GetBalance(1, { in.user_id : in \in NewcomerInputs })
    \/ BalanceCheckUser(1)
    \/ BalanceRead(1)
    \/ Humanize(1, NewcomerInputs)
    \/ DebitCheckUser(1)
    \/ DebitGetBalance(1)
    \/ DebitProvider(1)
    \/ DebitAddHistory(1)
    \/ DebitAddSpend(1)
    \/ DebitAddApi(1)

SpecRegister == Init /\ [][NextRegister]_vars

\* The operations that write a table with a unique index, of concurrent
\* requests.
NextUnique ==
    \/ CustomerPays
    \/ \E p \in Procs :
          \/ PaymentIntentKey(p, { [user_id |-> Alice, amount |-> 400, currency |-> "usd",
                                    payment_servers_type |-> "stripe"] })
          \/ IntentCheckUser(p)
          \/ IntentAdd(p)
          \/ PaymentResultCall(p, { result_id(1) })
          \/ ConfirmCheckUser(p)
          \/ ConfirmCheckSecret(p)
          \/ ConfirmCheckResult(p)
          \/ ConfirmAddRecharge(p)
          \/ ConfirmAddResult(p)
          \/ GetReferCode(p, { Bob })
          \/ GetCodeCheckUser(p)
          \/ GetCodeLookup(p)
          \/ GetCodeAdd(p)
          \/ UseReferCode(p, { [user_id |-> Bob, refer_code |-> AliceCode,
                                recharge_credit |-> Thousandths(100)] })
          \/ UseCheckUser(p)
          \/ UseCheckCode(p)
          \/ UseCheckHistory(p)
          \/ UseGetOwner(p)
          \/ UseAddHistory(p)
          \/ UseAddReferee(p)
          \/ UseAddReferrer(p)

SpecUnique == Init /\ [][NextUnique]_vars

\* Manual recharges with any recharge_credit that is not empty: the request
\* body's number is passed on as it is.
ManualInputs ==
    RechargeInputs
    \cup { [user_id |-> Alice, amount |-> 400, recharge_credit |-> 0 - Credits(600)] }

\* Manual recharges, balance queries and debits, one request at a time.
NextRecharge ==
    \/ Recharge(1, ManualInputs)
    \/ RechargeCheckUser(1)
    \/ RechargeAdd(1)
    \/ BalanceOps(1)
    \/ Humanize(1, { [user_id |-> Alice, word_count |-> 400, mode |-> "easy"] })
    \/ DebitCheckUser(1)
    \/ DebitGetBalance(1)
    \/ DebitProvider(1)
    \/ DebitAddHistory(1)
    \/ DebitAddSpend(1)
    \/ DebitAddApi(1)

SpecRecharge == Init /\ [][NextRecharge]_vars

\* Deletions, and the debits, recharges, payment confirmations and
\* redemptions of the users they may delete, one request at a time.
NextDelete ==
    \/ DeleteUser(1, DeleteInputs)
    \/ DeleteCheckUser(1)
    \/ DeleteRemove(1)
    \/ Humanize(1, { [user_id |-> Alice, word_count |-> 400, mode |-> "easy"] })
    \/ Check(1, { [user_id |-> Bob, word_count |-> 400, mode |-> "check"] })
    \/ DebitCheckUser(1)
    \/ DebitGetBalance(1)
    \/ DebitProvider(1)
    \/ DebitAddHistory(1)
    \/ DebitAddSpend(1)
    \/ DebitAddApi(1)
    \/ Recharge(1, { [user_id |-> Alice, amount |-> 400, recharge_credit |-> Credits(100)] })
    \/ RechargeCheckUser(1)
    \/ RechargeAdd(1)
    \/ CustomerPays
    \/ PaymentResultCall(1, { result_id(1) })
    \/ ConfirmCheckUser(1)
    \/ ConfirmCheckSecret(1)
    \/ ConfirmCheckResult(1)
    \/ ConfirmAddRecharge(1)
    \/ ConfirmAddResult(1)
    \/ UseReferCode(1, { [user_id |-> Bob, refer_code |-> AliceCode,
                          recharge_credit |-> Thousandths(100)] })
    \/ UseCheckUser(1)
    \/ UseCheckCode(1)
    \/ UseCheckHistory(1)
    \/ UseGetOwner(1)
    \/ UseAddHistory(1)
    \/ UseAddReferee(1)
    \/ UseAddReferrer(1)

SpecDelete == Init /\ [][NextDelete]_vars

\* The arrival of a billable action or of a payment confirmation.
LiveStart(p) ==
    \/ Humanize(p, { [user_id |-> Alice, word_count |-> 400, mode |-> "easy"] })
    \/ Check(p, { [user_id |-> Alice, word_count |-> 400, mode |-> "check"] })
    \/ PaymentResultCall(p, { result_id(1) })

\* The steps of a request after its arrival.  None waits for another
\* request: each is a query, an insert or a provider call of its own.
LiveStep(p) ==
    \/ DebitCheckUser(p)
    \/ DebitGetBalance(p)
    \/ DebitProvider(p)
    \/ DebitAddHistory(p)
    \/ DebitAddSpend(p)
    \/ DebitAddApi(p)
    \/ ConfirmCheckUser(p)
    \/ ConfirmCheckSecret(p)
    \/ ConfirmCheckResult(p)
    \/ ConfirmAddRecharge(p)
    \/ ConfirmAddResult(p)

NextLive == CustomerPays \/ \E p \in Procs : LiveStart(p) \/ LiveStep(p)

\* Concurrent requests under a fair scheduler: a request that can take its
\* next step takes it, the store and the providers answering every call
\* (with a result, an error or a timeout).
SpecLive == Init /\ [][NextLive]_vars /\ \A p \in Procs : WF_vars(LiveStep(p))

\* ------------------------------------------------------------------ ledger
\* The user ids a behaviour can name: the unregistered one and one per tick.
LedgerUsers == { user_id(t) : t \in 0 .. InitClock + MaxCalls }

\* The sum of a column over the rows of a user, row by row.
RECURSIVE credit_total(_, _, _)
credit_total(rows, u, col) ==
    IF rows = << >> THEN 0
    ELSE (IF Head(rows).user_id = u THEN Head(rows)[col] ELSE 0)
         + credit_total(Tail(rows), u, col)

\* Recharges minus spends of a user, from the rows.
Ledger(u) == credit_total(RechargeHistory, u, "recharge_credit")
             - credit_total(SpendHistory, u, "spend_credit")

HasRows(u) ==
    \/ \E i \in 1 .. Len(RechargeHistory) : RechargeHistory[i].user_id = u
    \/ \E i \in 1 .. Len(SpendHistory) : SpendHistory[i].user_id = u

\* No request is in flight.
Quiescent == \A p \in Procs : ~Busy(p)

\* The rows a request that started at tick t wrote.
RowsAt(table, t) == { i \in 1 .. Len(table) : table[i].time = t }

\* C1: in every reachable state get_balance(u) is the sum of u's recharge
\* credits minus the sum of u's spend credits, for every user u, and it is 0
\* for a user without rows in either table.
C1_BalanceIsLedger ==
    \A u \in LedgerUsers :
        /\ get_balance(u, TRUE) = Ledger(u)
        /\ ~HasRows(u) => get_balance(u, TRUE) = 0

\* Alice has spent 400 credits of her gift of 500 and recharged 100; the
\* unregistered user has no rows.
C1_Witness ==
    /\ SpendHistory # << >>
    /\ Len(RechargeHistory) >= 3
    /\ get_balance(Alice, TRUE) = Credits(200)
    /\ ~HasRows(Nobody)

\* ------------------------------------------------------------------ debits
\* The rows of a debit that started at tick t.
DebitRowsAt(t) ==
    RowsAt(HumanizedHistory, t) \cup RowsAt(CheckHistory, t)
    \cup RowsAt(SpendHistory, t) \cup RowsAt(ApiHistory, t)

\* C2: with one request at a time, a debit whose cost exceeds the balance
\* read at admission is rejected and has written no history, spend or api
\* row; a spend row is written only for a cost within that balance; and the
\* balance of every user is at least 0 after every committed spend.
C2_SequentialDebitAdmission ==
    /\ (IsDebit(response) /\ response.balance # NULL
            /\ response.spend > response.balance[1])
          => response.status = 400 /\ DebitRowsAt(response.time) = { }
    /\ \A p \in Procs :
          (IsDebit(req[p]) /\ req[p].pc \in {"provider", "add_history", "add_spend", "add_api"})
             => /\ req[p].spend <= req[p].balance[1]
                /\ req[p].balance[1] = Ledger(req[p].user_id)
                                       + (IF req[p].pc = "add_api" THEN req[p].spend ELSE 0)
    /\ (IsDebit(response) /\ RowsAt(SpendHistory, response.time) # { })
          => response.balance # NULL /\ response.spend <= response.balance[1]
    /\ \A u \in LedgerUsers : Ledger(u) >= 0

\* A debit of 400 credits was admitted, and the next one, of 400 credits
\* against the remaining 100, has just been rejected.
C2_Witness ==
    /\ IsDebit(response)
    /\ response.status = 400
    /\ response.balance = Some(Credits(100))
    /\ response.spend = Credits(400)
    /\ Len(SpendHistory) = 1
    /\ DebitRowsAt(response.time) = { }

\* C3: for every interleaving of concurrent debits of one user the admitted
\* spends never exceed the recharges: no balance is negative after a
\* committed spend.
C3_ConcurrentDebitsNeverOverdraw ==
    \A u \in LedgerUsers :
        credit_total(SpendHistory, u, "spend_credit")
            <= credit_total(RechargeHistory, u, "recharge_credit")

\* C8: when a debit answers the internal error, none of the rows of its unit
\* (history, spend, api) is in the store.
C8_FailedDebitLeavesNoRows ==
    (IsDebit(response) /\ response.status = 500) => DebitRowsAt(response.time) = { }

\* ------------------------------------------------------------------ payments
\* The 'payment' recharge rows written for a result id.
PaymentRecharges(rid) ==
    { i \in 1 .. Len(RechargeHistory) :
        /\ RechargeHistory[i].recharge_type = "payment"
        /\ RechargeHistory[i].origin = rid }

ResultRows(rid) == { i \in 1 .. Len(PaymentResult) : PaymentResult[i].result_id = rid }

\* A payment_result row of a payment that succeeded in full.
SucceededRow(row) == row.status = "succeeded" /\ row.amount = row.amount_received

\* C4: with one request at a time and no store failure, a confirmation of a
\* succeeded payment whose result id was already recorded as succeeded by an
\* earlier call is rejected and writes nothing, and there is exactly one
\* 'payment' recharge row and exactly one payment_result row for the id; a
\* result id never has two payment_result rows.
C4_SecondConfirmationRejected ==
    /\ \A rid \in ResultIds : Cardinality(ResultRows(rid)) <= 1
    /\ (/\ faults = 0
        /\ IsConfirm(response) /\ response.fetched /\ succeeded(response)
        /\ \E i \in ResultRows(response.result_id) :
              PaymentResult[i].time < response.time /\ SucceededRow(PaymentResult[i]))
          => /\ response.status = 400
             /\ RowsAt(RechargeHistory, response.time) = { }
             /\ RowsAt(PaymentResult, response.time) = { }
             /\ Cardinality(PaymentRecharges(response.result_id)) = 1
             /\ Cardinality(ResultRows(response.result_id)) = 1

\* The second confirmation of Alice's succeeded payment has just been rejected.
C4_Witness ==
    /\ faults = 0
    /\ IsConfirm(response) /\ response.fetched /\ succeeded(response)
    /\ response.status = 400
    /\ \E i \in ResultRows(response.result_id) :
          PaymentResult[i].time < response.time /\ SucceededRow(PaymentResult[i])
    /\ Cardinality(PaymentRecharges(response.result_id)) = 1

\* C5: for every interleaving of concurrent confirmations of one succeeded
\* result id, without any store failure, at most one 'payment' recharge row
\* and at most one payment_result row exist for it, and exactly one
\* payment_result row once a recharge row exists and no request is in flight.
C5_ConcurrentConfirmationsCreditOnce ==
    faults = 0 =>
        \A rid \in ResultIds :
            /\ Cardinality(PaymentRecharges(rid)) <= 1
            /\ Cardinality(ResultRows(rid)) <= 1
            /\ (Quiescent /\ PaymentRecharges(rid) # { }) => Cardinality(ResultRows(rid)) = 1

\* C6: over any sequence of confirmations, failed inserts and retries
\* included, at most one 'payment' recharge row is written for a result id.
C6_PaymentCountedOnce ==
    \A rid \in ResultIds : Cardinality(PaymentRecharges(rid)) <= 1

\* C9: once no request is in flight, a 'payment' recharge row of a result id
\* exists if and only if a payment_result row of a succeeded outcome exists
\* for it.
C9_RechargeIffResult ==
    Quiescent =>
        \A rid \in ResultIds :
            PaymentRecharges(rid) # { }
                <=> \E i \in ResultRows(rid) : SucceededRow(PaymentResult[i])

\* ------------------------------------------------------------------ referrals
HistoryRows(u) == { i \in 1 .. Len(ReferHistory) : ReferHistory[i].refer_to_user_id = u }

\* The reward rows of the redemption of referee u: the referee's own and the
\* referrer's.
RefereeRewards(u) ==
    { i \in 1 .. Len(RechargeHistory) :
        /\ RechargeHistory[i].recharge_type = "refer"
        /\ RechargeHistory[i].origin = << "refer", u >>
        /\ RechargeHistory[i].user_id = u }

ReferrerRewards(u) ==
    { i \in 1 .. Len(RechargeHistory) :
        /\ RechargeHistory[i].recharge_type = "refer"
        /\ RechargeHistory[i].origin = << "refer", u >>
        /\ RechargeHistory[i].user_id # u }

\* No redemption of referee u is in flight.
Redeemed(u) == \A p \in Procs : ~(IsUse(req[p]) /\ req[p].user_id = u)

\* C7: however redemptions of one referee follow or interleave, the referee
\* has at most one refer_history row, at most one reward and the referrer at
\* most one reward for it; and when no store access failed and no redemption
\* of the referee is in flight, a referee with a refer_history row has exactly
\* one row and exactly one pair of rewards.
C7_ReferralAtMostOnce ==
    \A u \in LedgerUsers :
        /\ Cardinality(HistoryRows(u)) <= 1
        /\ Cardinality(RefereeRewards(u)) <= 1
        /\ Cardinality(ReferrerRewards(u)) <= 1
        /\ (RefereeRewards(u) # { } \/ ReferrerRewards(u) # { }) => HistoryRows(u) # { }
        /\ (faults = 0 /\ Redeemed(u) /\ HistoryRows(u) # { })
              => Cardinality(RefereeRewards(u)) = 1 /\ Cardinality(ReferrerRewards(u)) = 1

\* Two redemptions of Bob interleaved: the unique index refused the second
\* one's refer_history row, and Bob's one redemption has its pair of rewards.
C7_Witness ==
    /\ faults = 0
    /\ IsUse(response) /\ response.user_id = Bob /\ response.status = 500
    /\ Redeemed(Bob)
    /\ Cardinality(HistoryRows(Bob)) = 1
    /\ Cardinality(RefereeRewards(Bob)) = 1
    /\ Cardinality(ReferrerRewards(Bob)) = 1

\* C10: once no request is in flight, the refer_history row and the two
\* reward rows of a redemption are all there or none is.
C10_RedemptionAllOrNone ==
    Quiescent =>
        \A u \in LedgerUsers :
            /\ HistoryRows(u) # { } <=> RefereeRewards(u) # { }
            /\ HistoryRows(u) # { } <=> ReferrerRewards(u) # { }

\* ------------------------------------------------------------------ registration
\* The welcome gifts written for a user.
GiftRows(u) ==
    { i \in 1 .. Len(RechargeHistory) :
        RechargeHistory[i].recharge_type = "gift" /\ RechargeHistory[i].user_id = u }

\* C11: once no request is in flight, a user row exists if and only if the
\* user's welcome gift exists: a registration whose gift insert failed has
\* left no user row.
C11_UserIffGift ==
    Quiescent =>
        \A u \in LedgerUsers : (\E r \in User : r.user_id = u) <=> GiftRows(u) # { }

\* ------------------------------------------------------------------ confirmations
\* A payment_intent row holds the secret.
Opened(secret) == \E i \in 1 .. Len(PaymentIntent) : PaymentIntent[i].client_secret = secret

\* C12: a confirmation whose provider result carries a client secret without
\* a payment_intent row is rejected and has written no recharge_history and
\* no payment_result row, whatever the status and amounts; every row of either
\* kind belongs to a result whose secret was opened.
C12_UnknownSecretRejected ==
    /\ (IsConfirm(response) /\ response.fetched /\ ~Opened(response.client_secret))
          => /\ response.status = 400
             /\ RowsAt(RechargeHistory, response.time) = { }
             /\ RowsAt(PaymentResult, response.time) = { }
    /\ \A i \in 1 .. Len(PaymentResult) : Opened(PaymentResult[i].client_secret)
    /\ \A i \in 1 .. Len(RechargeHistory) :
          RechargeHistory[i].recharge_type = "payment"
             => Opened(client_secret(RechargeHistory[i].origin[2]))

\* Alice paid an intent in full whose payment_intent row was never written;
\* its confirmation has just been rejected.
C12_Witness ==
    /\ IsConfirm(response) /\ response.fetched
    /\ response.user_id = Alice
    /\ response.provider_status = "succeeded"
    /\ response.amount = response.amount_received
    /\ ~Opened(response.client_secret)
    /\ response.status = 400

\* C13: a confirmation that passed validation and whose writes succeeded has
\* written exactly one payment_result row, and one recharge_history row if
\* the provider's status is 'succeeded' and the amount equals the amount
\* received, none otherwise.
C13_RechargeIffSucceeded ==
    (IsConfirm(response) /\ response.status = 200)
       => /\ Cardinality(RowsAt(PaymentResult, response.time)) = 1
          /\ Cardinality(RowsAt(RechargeHistory, response.time)) =
                (IF response.provider_status = "succeeded"
                      /\ response.amount = response.amount_received
                 THEN 1 ELSE 0)

\* A payment captured in part (status 'succeeded', less received than asked)
\* has just been confirmed: its result is recorded, nothing is credited.
C13_Witness ==
    /\ IsConfirm(response) /\ response.status = 200
    /\ response.provider_status = "succeeded"
    /\ response.amount_received < response.amount
    /\ Cardinality(RowsAt(PaymentResult, response.time)) = 1
    /\ RowsAt(RechargeHistory, response.time) = { }

\* The rate table: currency, amount in minor units, whole credits.
RateTable ==
    { << "cny", 2900, 500 >>, << "cny", 4900, 1000 >>, << "cny", 9900, 2000 >>,
      << "cny", 19900, 4500 >>, << "cny", 49900, 12000 >>, << "cny", 99900, 25000 >>,
      << "usd", 400, 500 >>, << "usd", 700, 1000 >>, << "usd", 1400, 2000 >>,
      << "usd", 2800, 4500 >>, << "usd", 7000, 12000 >>, << "usd", 14000, 25000 >>,
      << "cad", 700, 500 >>, << "cad", 1240, 1000 >>, << "cad", 2480, 2000 >>,
      << "cad", 4960, 4500 >>, << "cad", 12400, 12000 >>, << "cad", 24800, 25000 >> }

\* The table's credit of an amount paid in a currency, 0 without an entry.
RateCredit(currency, amount) ==
    LET entries == { e \in RateTable : e[1] = currency /\ e[2] = amount }
    IN  IF entries = { } THEN 0 ELSE Credits((CHOOSE e \in entries : TRUE)[3])

\* C14: the recharge_credit of every recharge row written by a confirmation
\* is the rate table's entry for the currency and the amount paid, 0 when
\* there is no entry; and a confirmation does not answer the internal error
\* unless a store access failed.
C14_CreditFromRateTable ==
    /\ \A i \in 1 .. Len(RechargeHistory) :
          RechargeHistory[i].recharge_type = "payment"
             => LET intent == stripe[RechargeHistory[i].origin[2]]
                IN  RechargeHistory[i].recharge_credit
                       = RateCredit(intent.currency, intent.amount)
    /\ (IsConfirm(response) /\ response.fetched /\ faults = 0) => response.status # 500

\* A payment of 4.00 EUR, a currency without a table, has just been confirmed
\* and credited 0.
C14_Witness ==
    /\ IsConfirm(response) /\ response.status = 200
    /\ response.currency = "EUR"
    /\ \E i \in RowsAt(RechargeHistory, response.time) :
          /\ RechargeHistory[i].recharge_type = "payment"
          /\ RechargeHistory[i].recharge_credit = 0

\* ------------------------------------------------------------------ intents
\* C15: when the provider's call of get_payment_intent_key failed, the
\* operation answers an error and no payment_intent row of it exists; when
\* it succeeded for an existing user and no store access failed, the
\* operation answers 200 and exactly one payment_intent row holds the secret.
C15_IntentRowIffProviderAnswered ==
    response.op = "payment_intent" =>
        /\ response.client_secret = NULL
              => /\ response.status \in {400, 500}
                 /\ RowsAt(PaymentIntent, response.time) = { }
        /\ (/\ response.client_secret # NULL
            /\ \E u \in User : u.user_id = response.user_id
            /\ faults = 0)
              => /\ response.status = 200
                 /\ Cardinality({ i \in 1 .. Len(PaymentIntent) :
                        PaymentIntent[i].client_secret = response.client_secret[1] }) = 1
                 /\ Cardinality(RowsAt(PaymentIntent, response.time)) = 1

\* Stripe's call failed for Alice: the request has just answered 500 and
\* payment_intent has the one row it had.
C15_Witness ==
    /\ response.op = "payment_intent"
    /\ response.payment_servers_type = "stripe"
    /\ response.user_id = Alice
    /\ response.client_secret = NULL
    /\ response.status = 500
    /\ faults = 0
    /\ Len(PaymentIntent) = 1

\* ------------------------------------------------------------------ rejections
\* Every operation, one request at a time, on the inputs its validation
\* rejects, and the payments and redemptions that set the stage for a conflict.
NextReject ==
    \/ Humanize(1, { [user_id |-> Alice,  word_count |-> 600, mode |-> "easy"],
                     [user_id |-> Alice,  word_count |-> 20,  mode |-> "easy"],
                     [user_id |-> Alice,  word_count |-> 0,   mode |-> "easy"],
                     [user_id |-> Alice,  word_count |-> 30,  mode |-> "turbo"],
                     [user_id |-> Nobody, word_count |-> 400, mode |-> "easy"] })
    \/ HumanizeChunks(1, { [user_id |-> Alice, word_count |-> 20, mode |-> "medium"] })
    \/ Check(1, { [user_id |-> Alice,  word_count |-> 20, mode |-> "check"],
                  [user_id |-> Nobody, word_count |-> 30, mode |-> "check"] })
    \/ DebitCheckUser(1)
    \/ DebitGetBalance(1)
    \/ Recharge(1, { [user_id |-> Alice,  amount |-> 400, recharge_credit |-> 0],
                     [user_id |-> Nobody, amount |-> 400, recharge_credit |-> Credits(100)] })
    \/ RechargeCheckUser(1)
    \/ Register(1, { "alice@x", "" })
    \/ RegisterCheckEmail(1)
    \/ PaymentIntentKey(1, { [user_id |-> Alice,  amount |-> 400, currency |-> "usd",
                              payment_servers_type |-> "stripe"],
                             [user_id |-> Nobody, amount |-> 400, currency |-> "usd",
                              payment_servers_type |-> "stripe"] })
    \/ IntentCheckUser(1)
    \/ IntentAdd(1)
    \/ PaymentResultCall(1, ResultIds)
    \/ ConfirmCheckUser(1)
    \/ ConfirmCheckSecret(1)
    \/ ConfirmCheckResult(1)
    \/ ConfirmAddRecharge(1)
    \/ ConfirmAddResult(1)
    \/ CustomerPays
    \/ GetReferCode(1, { Nobody })
    \/ GetCodeCheckUser(1)
    \/ UseReferCode(1, UseInputs)
    \/ UseCheckUser(1)
    \/ UseCheckCode(1)
    \/ UseCheckHistory(1)
    \/ UseGetOwner(1)
    \/ UseAddHistory(1)
    \/ UseAddReferee(1)
    \/ UseAddReferrer(1)

SpecReject == Init /\ [][NextReject]_vars

\* The request that started at tick t has written no row of any table.
NothingWrittenAt(t) ==
    /\ \A u \in User : u.user_id # user_id(t)
    /\ RowsAt(HumanizedHistory, t) = { } /\ RowsAt(CheckHistory, t) = { }
    /\ RowsAt(SpendHistory, t) = { } /\ RowsAt(RechargeHistory, t) = { }
    /\ RowsAt(ApiHistory, t) = { }
    /\ RowsAt(PaymentIntent, t) = { } /\ RowsAt(PaymentResult, t) = { }
    /\ \A i \in 1 .. Len(ReferCode) : ReferCode[i].created_at # t
    /\ \A i \in 1 .. Len(ReferHistory) : ReferHistory[i].refer_time # t

C17_FailedProviderCallNotCharged ==
    (faults = 0 /\ IsDebit(response) /\ response.provider_error)
       => response.status = 500 /\ DebitRowsAt(response.time) = { }

\* C18: no operation answers 200 when a store access or a provider call
\* inside it failed.
C18_NoSuccessAfterFailure ==
    /\ (response.op = "get_balance" /\ response.failed) => response.status # 200
    /\ (IsDebit(response) /\ response.provider_error) => response.status # 200

\* ------------------------------------------------------------------ append-only
\* Every row of the table before the step is the same row after it.
Kept(before, after) ==
    /\ Len(before) <= Len(after)
    /\ \A i \in 1 .. Len(before) : after[i] = before[i]

\* C19: every step keeps every committed row of spend_history,
\* recharge_history, api_history, humanized_history, check_history,
\* payment_intent, payment_result, refer_code and refer_history in place and
\* unchanged.
C19_AppendOnly ==
    [][/\ Kept(SpendHistory, SpendHistory')
       /\ Kept(RechargeHistory, RechargeHistory')
       /\ Kept(ApiHistory, ApiHistory')
       /\ Kept(HumanizedHistory, HumanizedHistory')
       /\ Kept(CheckHistory, CheckHistory')
       /\ Kept(PaymentIntent, PaymentIntent')
       /\ Kept(PaymentResult, PaymentResult')
       /\ Kept(ReferCode, ReferCode')
       /\ Kept(ReferHistory, ReferHistory')]_vars

\* Two requests have added rows to tables that had some: a second payment
\* intent and a third recharge.
C19_Witness ==
    /\ Len(PaymentIntent) = 2
    /\ Len(RechargeHistory) = 3

\* ------------------------------------------------------------------ pricing
\* The price list, in tenths of a credit per word.
PriceInTenths(op, mode) ==
    IF op = "check" THEN 1
    ELSE CASE mode = "easy" -> 10
           [] mode = "medium" -> 12
           [] mode = "aggressive" -> 15

\* C20: 100 words at medium cost 120 credits and a check of 50 words costs
\* 5; the spend row of a successful humanize or check carries word_count
\* times the multiplier of its mode (1.0, 1.2, 1.5), or word_count times 0.1.
C20_PricingDeterminism ==
    /\ humanized_spend(100, "medium") = Credits(120)
    /\ humanized_spend(100, "easy") = Credits(100)
    /\ humanized_spend(100, "aggressive") = Credits(150)
    /\ check_spend(50) = Credits(5)
    /\ (IsDebit(response) /\ response.status = 200)
          => /\ Cardinality(RowsAt(SpendHistory, response.time)) = 1
             /\ \A i \in RowsAt(SpendHistory, response.time) :
                   SpendHistory[i].spend_credit * 10
                      = response.word_count * PriceInTenths(response.op, response.mode) * 100

\* A humanization of 21 words at medium has just succeeded and cost 25.20.
C20_Witness ==
    /\ IsDebit(response) /\ response.status = 200
    /\ response.op = "humanized" /\ response.mode = "medium" /\ response.word_count = 21
    /\ \E i \in RowsAt(SpendHistory, response.time) : SpendHistory[i].spend_credit = 2520

ReferHistoryAt(t) == { i \in 1 .. Len(ReferHistory) : ReferHistory[i].refer_time = t }

\* The 'refer' recharge rows of user u written by the request of tick t.
RewardsAt(t, u) ==
    { i \in RowsAt(RechargeHistory, t) :
        RechargeHistory[i].recharge_type = "refer" /\ RechargeHistory[i].user_id = u }

\* C22: a redemption that answered 200, no store access failing, has written exactly one refer_history
\* row linking the code's owner, the redeeming user and the code, one
\* recharge row of exactly 0.50 x recharge_credit for the redeeming user and
\* one of exactly 0.25 x recharge_credit for the owner.
C22_RewardsQuarterAndHalf ==
    (IsUse(response) /\ response.status = 200 /\ faults = 0)
       => /\ Cardinality(ReferHistoryAt(response.time)) = 1
          /\ \A i \in ReferHistoryAt(response.time) :
                /\ ReferHistory[i].refer_to_user_id = response.user_id
                /\ ReferHistory[i].refer_from_user_id = response.from_user_id[1]
                /\ ReferHistory[i].refer_code = response.refer_code
          /\ Cardinality(RewardsAt(response.time, response.user_id)) = 1
          /\ Cardinality(RewardsAt(response.time, response.from_user_id[1])) = 1
          /\ \A i \in RewardsAt(response.time, response.user_id) :
                RechargeHistory[i].recharge_credit * 1000 = response.recharge_credit * 50
          /\ \A i \in RewardsAt(response.time, response.from_user_id[1]) :
                RechargeHistory[i].recharge_credit * 1000 = response.recharge_credit * 25

\* ------------------------------------------------------------------ redemption checks
\* The steps of a redemption after the named one.
UseAfter(pc) ==
    CASE pc = "check_user" ->
            {"check_code", "check_history", "get_owner", "add_history", "add_referee",
             "add_referrer"}
      [] pc = "check_code" ->
            {"check_history", "get_owner", "add_history", "add_referee", "add_referrer"}
      [] pc = "get_owner" -> {"add_history", "add_referee", "add_referrer"}

\* C23: a redemption passes the user check, then the look-up of the code and
\* the test recharge_credit > 0, then the test that the user was never
\* referred, then the test that the owner is another user, and answers 400 at
\* the first that fails; no refer_history row has the referrer as its referee
\* or a recharge_credit that is not positive.
C23_ChecksInOrder ==
    /\ \A p \in Procs :
          IsUse(req[p]) =>
             /\ req[p].pc \in UseAfter("check_user")
                   => \E u \in User : u.user_id = req[p].user_id
             /\ req[p].pc \in UseAfter("check_code")
                   => /\ get_user_id_by_refer_code(req[p].refer_code, TRUE) # NULL
                      /\ req[p].recharge_credit > 0
             /\ req[p].pc \in UseAfter("get_owner")
                   => /\ req[p].from_user_id
                            = get_user_id_by_refer_code(req[p].refer_code, TRUE)
                      /\ req[p].from_user_id[1] # req[p].user_id
    /\ (IsUse(response) /\ response.status = 400 /\ faults = 0)
          => \/ ~ \E u \in User : u.user_id = response.user_id
             \/ get_user_id_by_refer_code(response.refer_code, TRUE) = NULL
             \/ response.recharge_credit <= 0
             \/ check_refer_history_exists(response.user_id, TRUE)
             \/ get_user_id_by_refer_code(response.refer_code, TRUE) = Some(response.user_id)
    /\ \A i \in 1 .. Len(ReferHistory) :
          /\ ReferHistory[i].refer_from_user_id # ReferHistory[i].refer_to_user_id
          /\ ReferHistory[i].recharge_credit > 0

\* ------------------------------------------------------------------ referral check
\* The validations of process_use_refer_code on the store as it is, for a
\* positive recharge_credit.
UsePasses(u, code) ==
    /\ check_user_id_exists(u, TRUE)
    /\ get_user_id_by_refer_code(code, TRUE) # NULL
    /\ ~check_refer_history_exists(u, TRUE)
    /\ get_user_id_by_refer_code(code, TRUE) # Some(u)

CodeRows(u) == { i \in 1 .. Len(ReferCode) : ReferCode[i].refer_from_user_id = u }

\* C25: however calls of process_get_refer_code for a user follow or
\* interleave, the user has at most one refer_code row, a call made when the
\* user has a row writes none, and every call that answers 200 returns the
\* code of the user's row.
C25_OneCodePerUser ==
    /\ \A u \in LedgerUsers : Cardinality(CodeRows(u)) <= 1
    /\ response.op = "get_refer_code"
          => /\ (\E i \in CodeRows(response.user_id) : ReferCode[i].created_at < response.time)
                   => \A i \in 1 .. Len(ReferCode) : ReferCode[i].created_at # response.time
             /\ response.status = 200
                   => /\ CodeRows(response.user_id) # { }
                      /\ \A i \in CodeRows(response.user_id) :
                            ReferCode[i].refer_code = response.refer_code

\* Bob's second call has just returned the code his first call created.
C25_Witness ==
    /\ response.op = "get_refer_code" /\ response.user_id = Bob /\ response.status = 200
    /\ \E i \in CodeRows(Bob) :
          /\ ReferCode[i].created_at < response.time
          /\ ReferCode[i].created_at > InitClock
          /\ ReferCode[i].refer_code = response.refer_code

\* ------------------------------------------------------------------ welcome gift
\* C26: a registration that answered 200 has created one user row and one
\* 'gift' recharge row of 500 credits, amount 0, currency USD, for the new
\* user id, whose balance is 500, also as get_balance answers it before the
\* user has spent; a humanization of 100 words at easy that
\* found a balance of 500 and answered 200 leaves a balance of 400.
C26_WelcomeGift ==
    /\ (response.op = "register" /\ response.status = 200)
          => /\ Cardinality({ u \in User : u.user_id = response.user_id }) = 1
             /\ Cardinality(GiftRows(response.user_id)) = 1
             /\ \A i \in 1 .. Len(RechargeHistory) :
                   RechargeHistory[i].user_id = response.user_id
                      => /\ RechargeHistory[i].time = response.time
                         /\ RechargeHistory[i].recharge_type = "gift"
                         /\ RechargeHistory[i].recharge_credit = Credits(500)
                         /\ RechargeHistory[i].amount = 0
                         /\ RechargeHistory[i].currency = "USD"
             /\ get_balance(response.user_id, TRUE) = Credits(500)
    /\ (/\ response.op = "get_balance" /\ response.status = 200 /\ ~response.failed
        /\ GiftRows(response.user_id) # { }
        /\ filter_by_user(SpendHistory, response.user_id) = << >>)
          => response.balance = Some(Credits(500))
    /\ (/\ response.op = "humanized" /\ response.status = 200
        /\ response.word_count = 100 /\ response.mode = "easy"
        /\ response.balance = Some(Credits(500)))
          => get_balance(response.user_id, TRUE) = Credits(400)

\* The user registered by the first request has humanized 100 words at easy
\* with the second and has 400 credits.
C26_Witness ==
    /\ response.op = "humanized" /\ response.status = 200
    /\ response.user_id = user_id(InitClock + 1)
    /\ response.word_count = 100 /\ response.mode = "easy"
    /\ GiftRows(response.user_id) # { }
    /\ get_balance(response.user_id, TRUE) = Credits(400)

\* ------------------------------------------------------------------ unique indexes
\* No two rows of the table have the same value in the column.
UniqueColumn(table, col) ==
    \A i, j \in 1 .. Len(table) : table[i][col] = table[j][col] => i = j

\* C27: in every reachable state, under every interleaving, no two
\* payment_intent rows have the same client_secret, no two payment_result
\* rows the same result_id, no two refer_history rows the same
\* refer_to_user_id, no two refer_code rows the same refer_code and no two
\* the same refer_from_user_id.
C27_UniqueColumns ==
    /\ UniqueColumn(PaymentIntent, "client_secret")
    /\ UniqueColumn(PaymentResult, "result_id")
    /\ UniqueColumn(ReferHistory, "refer_to_user_id")
    /\ UniqueColumn(ReferCode, "refer_code")
    /\ UniqueColumn(ReferCode, "refer_from_user_id")

\* Two confirmations of one result id both passed the look-up of an earlier
\* result; the index has refused the row of the second.
C27_Witness ==
    /\ IsConfirm(response) /\ response.fetched /\ response.status = 500
    /\ faults = 0
    /\ Cardinality(ResultRows(response.result_id)) = 1
    /\ RowsAt(PaymentResult, response.time) = { }

\* ------------------------------------------------------------------ balances
\* C28: in every reachable state, manual recharges with any non-empty
\* recharge_credit included, every recharge row has a recharge_credit of at
\* least 0 and the balance of every user is at least 0.
C28_NoNegativeBalance ==
    /\ \A i \in 1 .. Len(RechargeHistory) : RechargeHistory[i].recharge_credit >= 0
    /\ \A u \in LedgerUsers : get_balance(u, TRUE) >= 0

\* ------------------------------------------------------------------ deletion
\* The user has a row of the user table.
Registered(u) == \E row \in User : row.user_id = u

\* A request made in a user's name that is checked against the user table.
InUsersName(r) ==
    \/ IsDebit(r)
    \/ r.op = "recharge"
    \/ IsConfirm(r) /\ r.fetched
    \/ IsUse(r)

\* C29: a step of delete_user leaves the nine ledger tables as they are and
\* removes from the user table nothing but the row of its user; and, with
\* one request at a time, a debit, recharge, payment confirmation or
\* redemption in the name of a deleted user answers 400 at the user check and
\* writes nothing.
C29_DeleteRemovesUserRowOnly ==
    /\ [][\A p \in Procs :
             (req[p].op = "delete_user" /\ req'[p] # req[p])
                => /\ << HumanizedHistory, CheckHistory, SpendHistory, RechargeHistory,
                         ApiHistory, PaymentIntent, PaymentResult, ReferCode,
                         ReferHistory >>'
                      = << HumanizedHistory, CheckHistory, SpendHistory, RechargeHistory,
                           ApiHistory, PaymentIntent, PaymentResult, ReferCode,
                           ReferHistory >>
                   /\ User' \subseteq User
                   /\ \A row \in User \ User' : row.user_id = req[p].user_id]_vars
    /\ [](/\ \A p \in Procs :
                (InUsersName(req[p]) /\ req[p].pc # "check_user")
                   => Registered(req[p].user_id)
          /\ (/\ InUsersName(response)
              /\ response.user_id \in {Alice, Bob}
              /\ ~Registered(response.user_id))
                => response.status = 400 /\ NothingWrittenAt(response.time))

\* Alice was deleted; a recharge in her name has just been rejected, and her
\* welcome gift is still in recharge_history.
C29_Witness ==
    /\ response.op = "recharge" /\ response.user_id = Alice /\ response.status = 400
    /\ ~Registered(Alice)
    /\ GiftRows(Alice) # { }
    /\ Opened(client_secret(1))
    /\ CodeRows(Alice) # { }

\* ------------------------------------------------------------------ termination
\* C30: under fair scheduling every request in flight gets its response, and
\* no request waits for another; a billable action whose provider call failed
\* and a confirmation whose provider call failed answer the internal error
\* and have written nothing, no store access failing.
C30_TerminatesWithoutMutation ==
    /\ \A p \in Procs : Busy(p) ~> ~Busy(p)
    /\ []((IsConfirm(response) /\ ~response.fetched)
             => response.status = 500 /\ NothingWrittenAt(response.time))
    /\ []((IsDebit(response) /\ response.provider_error /\ faults = 0)
             => response.status = 500 /\ NothingWrittenAt(response.time))

\* ------------------------------------------------------------------ billable actions
\* The request-history table of a billable action.
HistoryOf(r) == IF r.op = "check" THEN CheckHistory ELSE HumanizedHistory

\* C31: a humanize, humanize_chunks or check that answered 200 has written
\* exactly one row of its history table, one spend row and one api row, all
\* of the requesting user and of the request's time stamp, the spend row of
\* kind 'humanized' for the humanize flows and 'check' for check; and only a
\* step of a billable action adds a spend row.
C31_OneRowOfEachPerAction ==
    /\ []((IsDebit(response) /\ response.status = 200)
            => /\ Cardinality(RowsAt(HistoryOf(response), response.time)) = 1
               /\ Cardinality(RowsAt(SpendHistory, response.time)) = 1
               /\ Cardinality(RowsAt(ApiHistory, response.time)) = 1
               /\ RowsAt(IF response.op = "check" THEN HumanizedHistory ELSE CheckHistory,
                         response.time) = { }
               /\ \A i \in RowsAt(HistoryOf(response), response.time) :
                     HistoryOf(response)[i].user_id = response.user_id
               /\ \A i \in RowsAt(SpendHistory, response.time) :
                     /\ SpendHistory[i].user_id = response.user_id
                     /\ SpendHistory[i].spend_type
                           = (IF response.op = "check" THEN "check" ELSE "humanized")
               /\ \A i \in RowsAt(ApiHistory, response.time) :
                     ApiHistory[i].user_id = response.user_id)
    /\ [][SpendHistory' # SpendHistory
             => \E p \in Procs : IsDebit(req[p]) /\ req[p].pc = "add_spend"
                                 /\ req'[p] # req[p]]_vars

\* A check of 400 words has just answered 200 with its three rows.
C31_Witness ==
    /\ response.op = "check" /\ response.status = 200
    /\ \E i \in RowsAt(SpendHistory, response.time) : SpendHistory[i].spend_type = "check"
    /\ RowsAt(CheckHistory, response.time) # { }
    /\ RowsAt(ApiHistory, response.time) # { }
    /\ Len(RechargeHistory) > 2

\* ------------------------------------------------------------------ order of events
\* The validations of a billable action, on the request as the provider step
\* finds it.
Validated(r) ==
    /\ r.word_count > 0
    /\ \E u \in User : u.user_id = r.user_id
    /\ r.word_count > 20
    /\ r.balance # NULL /\ r.spend <= r.balance[1]
    /\ r.op = "check" \/ r.mode \in {"easy", "medium", "aggressive"}

\* The step is one of request p.
StepOf(p) == req'[p] # req[p]

\* C32: in every billable action the provider is called only after every
\* validation has passed, and a row of the action is written only after the
\* provider call and the second balance query have returned: a request that
\* has not left the provider step has no row.
C32_ValidateCallWrite ==
    /\ [](\A p \in Procs :
             (IsDebit(req[p]) /\ req[p].pc \in {"check_user", "get_balance", "provider"})
                => DebitRowsAt(req[p].time) = { })
    /\ [][\A p \in Procs :
             (IsDebit(req[p]) /\ StepOf(p))
                => /\ req[p].pc = "provider"
                      => /\ Validated(req[p])
                         /\ UNCHANGED << HumanizedHistory, CheckHistory, SpendHistory,
                                         ApiHistory >>
                   /\ << HumanizedHistory, CheckHistory, SpendHistory, ApiHistory >>'
                         # << HumanizedHistory, CheckHistory, SpendHistory, ApiHistory >>
                      => req[p].pc \in {"add_history", "add_spend", "add_api"}]_vars

\* The provider has answered a validated request, which has no row yet.
C32_Witness ==
    \E p \in Procs :
        /\ IsDebit(req[p]) /\ req[p].pc = "add_history"
        /\ req[p].api_token_spend > 0
        /\ Validated(req[p])
        /\ DebitRowsAt(req[p].time) = { }

\* ------------------------------------------------------------------ provider cost
\* C33: the spend_words of the api row of a billable action, humanize and
\* check alike, is the provider's balance before the call minus its balance
\* after, or the request's word count when that difference is zero; the
\* spend row carries the price of the request either way.
C33_ProviderCostWithFallback ==
    IsDebit(response) =>
        /\ \A i \in RowsAt(ApiHistory, response.time) :
              LET delta == response.balance_api_before - ApiHistory[i].balance_api
              IN  ApiHistory[i].spend_words
                     = (IF delta = 0 THEN response.word_count ELSE delta)
        /\ \A i \in RowsAt(SpendHistory, response.time) :
              SpendHistory[i].spend_credit = response.spend

\* ------------------------------------------------------------------ missing input
\* Requests with an argument that is None, that is empty, or that is present.
MissingInputs ==
    { [user_id |-> Alice, word_count |-> AbsentText, mode |-> "easy"],
      [user_id |-> Alice, word_count |-> 0,          mode |-> "easy"],
      [user_id |-> Alice, word_count |-> 400,        mode |-> "easy"] }

MissingEmails == { AbsentEmail, "", "carol@x" }

NextMissing ==
    \/ Humanize(1, MissingInputs)
    \/ HumanizeChunks(1, MissingInputs)
    \/ Check(1, MissingInputs)
    \/ DebitCheckUser(1)
    \/ DebitGetBalance(1)
    \/ DebitProvider(1)
    \/ DebitAddHistory(1)
    \/ DebitAddSpend(1)
    \/ DebitAddApi(1)
    \/ Register(1, MissingEmails)
    \/ RegisterCheckEmail(1)
    \/ RegisterAddUser(1)
    \/ RegisterAddRecharge(1)

SpecMissing == Init /\ [][NextMissing]_vars

\* C34: an operation called with a required argument that is None or empty
\* (origin_text of humanize and check, user_email of register) returns the
\* 400 result and writes nothing.
C34_MissingInputRejected ==
    /\ (IsDebit(response) /\ response.word_count \in { AbsentText, 0 })
           => response.status = 400 /\ NothingWrittenAt(response.time)
    /\ (response.op = "register" /\ response.user_email \in { AbsentEmail, "" })
           => response.status = 400 /\ NothingWrittenAt(response.time)

\* ------------------------------------------------------------------ terminal outcome
\* C35: with one request at a time and no store failure, a payment_result row
\* is never changed or removed; a confirmation of a result id that an earlier
\* call recorded (succeeded or not) is rejected and writes nothing; and a
\* result id recorded as not succeeded has no 'payment' recharge row, whatever
\* the provider reports afterwards.
C35_RecordedOutcomeTerminal ==
    /\ [](faults = 0 =>
            /\ (/\ IsConfirm(response)
                /\ \E i \in ResultRows(response.result_id) :
                      PaymentResult[i].time < response.time)
                  => /\ response.status \in { 400, 500 }
                     /\ response.fetched => response.status = 400
                     /\ NothingWrittenAt(response.time)
            /\ \A rid \in ResultIds : \A i \in ResultRows(rid) :
                  ~SucceededRow(PaymentResult[i]) => PaymentRecharges(rid) = { })
    /\ [][\A i \in 1 .. Len(PaymentResult) :
             Len(PaymentResult') >= i /\ PaymentResult'[i] = PaymentResult[i]]_vars

\* A payment recorded while still processing, reported as succeeded by the
\* provider afterwards, has just been confirmed again and rejected.
C35_Witness ==
    /\ faults = 0
    /\ IsConfirm(response) /\ response.fetched /\ succeeded(response)
    /\ response.status = 400
    /\ \E i \in ResultRows(response.result_id) :
          /\ PaymentResult[i].time < response.time
          /\ PaymentResult[i].status = "processing"
    /\ PaymentRecharges(response.result_id) = { }

\* ------------------------------------------------------------------ intent of a payment
\* C36: every 'payment' recharge row belongs to the user, and carries the
\* amount (cents of the intent, hundredths of a dollar of the recharge) and
\* the currency, of the payment_intent row that holds the client secret of
\* the confirmed payment; store failures included.
C36_RechargeMatchesIntent ==
    \A i \in 1 .. Len(RechargeHistory) :
        RechargeHistory[i].recharge_type = "payment" =>
            \E j \in 1 .. Len(PaymentIntent) :
                /\ PaymentIntent[j].client_secret = client_secret(RechargeHistory[i].origin[2])
                /\ PaymentIntent[j].user_id = RechargeHistory[i].user_id
                /\ PaymentIntent[j].amount = RechargeHistory[i].amount
                /\ PaymentIntent[j].currency = RechargeHistory[i].currency

\* A payment in euros opened after the first one has been confirmed and credited.
C36_Witness ==
    /\ IsConfirm(response) /\ response.status = 200
    /\ \E i \in RowsAt(RechargeHistory, response.time) :
          /\ RechargeHistory[i].recharge_type = "payment"
          /\ RechargeHistory[i].currency = "EUR"
          /\ RechargeHistory[i].origin # result_id(1)

\* ------------------------------------------------------------------ ledger users
\* C37: every step that commits a recharge_history or spend_history row
\* commits it for a user who has a row in the user table at that moment,
\* already when no store access fails.
C37_LedgerRowsOfExistingUsers ==
    [][faults' = 0 =>
       /\ \A i \in Len(RechargeHistory) + 1 .. Len(RechargeHistory') :
             \E u \in User' : u.user_id = RechargeHistory'[i].user_id
       /\ \A i \in Len(SpendHistory) + 1 .. Len(SpendHistory') :
             \E u \in User' : u.user_id = SpendHistory'[i].user_id]_vars

\* ------------------------------------------------------------------ profile updates
\* Profile updates and balance queries, one request at a time.
NextUpdate ==
    \/ UpdateUser(1, UpdateInputs)
    \/ UpdateCheckUser(1)
    \/ UpdateSet(1)
    \/ GetBalance(1, { Alice, Mallory })
    \/ BalanceCheckUser(1)
    \/ BalanceRead(1)

SpecUpdate == Init /\ [][NextUpdate]_vars

\* C38: a step of update_user changes, of the addressed user row, at most the
\* named column among user_name, user_email and password_hash, and
\* updated_at; the row keeps its user_id and created_at, every other user row
\* and every ledger table stay as they are, so that the ledger rows of the
\* user, and with them the balance, are the same before and after.
C38_UpdateChangesNamedFieldOnly ==
    [][\A p \in Procs :
          (req[p].op = "update_user" /\ StepOf(p)) =>
             /\ UNCHANGED << HumanizedHistory, CheckHistory, SpendHistory,
                             RechargeHistory, ApiHistory >>
             /\ \A u \in User :
                   IF u.user_id # req[p].user_id THEN u \in User'
                   ELSE \E v \in User' :
                          /\ v.user_id = u.user_id /\ v.created_at = u.created_at
                          /\ \A f \in { "user_name", "user_email", "password_hash" } :
                                f # req[p].update_type => v[f] = u[f]
             /\ Cardinality(User') = Cardinality(User)]_vars

\* ------------------------------------------------------------------ concurrent registrations
\* Registrations of a new and of a taken email by overlapping requests.
NextRegisterPar ==
    \E p \in Procs :
        \/ Register(p, { "carol@x", "alice@x" })
        \/ RegisterCheckEmail(p)
        \/ RegisterAddUser(p)
        \/ RegisterAddRecharge(p)

SpecRegisterPar == Init /\ [][NextRegisterPar]_vars

\* C39: for every interleaving of registrations with the same email, store
\* failures included, at most one user row has the email and a user has at
\* most one gift row; a registration that finds the email on the row of
\* another registration answers an error and has no user row and no
\* recharge row of its own.
C39_ConcurrentRegistrationsOneUser ==
    /\ \A u, v \in User : u.user_email = v.user_email => u = v
    /\ \A u \in User : Cardinality(GiftRows(u.user_id)) <= 1
    /\ (/\ response.op = "register"
        /\ \E u \in User : /\ u.user_email = response.user_email
                           /\ u.user_id # response.user_id)
          => /\ response.status \in { 400, 500 }
             /\ ~Registered(response.user_id)
             /\ RowsAt(RechargeHistory, response.time) = { }

\* Two registrations of carol@x both passed the email check; the second
\* insert was refused by the unique index and answered 500, the first user
\* has the gift.
C39_Witness ==
    /\ faults = 0
    /\ response.op = "register" /\ response.status = 500
    /\ response.user_email = "carol@x"
    /\ \E u \in User : /\ u.user_email = "carol@x" /\ u.user_id # response.user_id
                       /\ Cardinality(GiftRows(u.user_id)) = 1

====
